---- MODULE Spec2Model ----
\* A model of the SatCat5 software core: the intrusive singly-linked list
\* (satcat5/list.h), the PTP Time value (satcat5/ptp_time.h) and the ConfigBus
\* register interface with its interrupt demultiplexer (satcat5/cfgbus_core.h).
EXTENDS Integers, Naturals, Sequences, FiniteSets, TLC

VARIABLES
    m_head,     \* List<T>::m_head of each list: first item, Null if empty
    m_next,     \* T::m_next of each item
    lop,        \* name of the list function whose call produced this state
    lret,       \* argument and return value of that call, if it returns one
    tm,         \* a ptp::Time object: its members m_secs and m_subns
    tcall,      \* the last call on tm: its name and its argument
    tret,       \* what that call returned
    tcount,     \* arithmetic operators applied to tm since it was constructed
    wire,       \* bytes of a PTP message written and not yet read
    ra,         \* the last two calls of get_regaddr: arguments and result
    regs,       \* the registers behind a ConfigBusMmap
    buslog,     \* the register accesses of the last ConfigBus call, in order
    cfgcall,    \* the last ConfigBus call: its name and its arguments
    cfgret,     \* what that call returned: the status and the values read
    m_irq_list, \* ConfigBus::m_irq_list: the registered handlers, head first
    irq_status, \* the interrupt-status bit of each peripheral
    irq_owed,   \* peripherals that raised an interrupt not yet called back
    irq_enable, \* the shared interrupt line is armed
    irq_cursor, \* during irq_poll: the handlers still to visit; else Idle
    irq_walked, \* handlers visited by the current or the last irq_poll
    irq_called, \* handlers called back by the current or the last irq_poll
    irq_start,  \* peripherals whose status was pending when that poll began
    irq_raised, \* peripherals that raised their status during that poll
    protos,     \* net::Dispatch of each node: its Protocols, head first
    chan,       \* frames on their way to each node, oldest first
    netlog,     \* the last frame a Dispatch received, and what came of it
    injected,   \* request frames sent into the network so far
    pc_wr,      \* io::WritePcap: open or not, format, working buffer, m_pass
    pc_file,    \* the bytes of the capture file
    pc_sink,    \* the packets finalized on the passthrough Writeable
    pc_log,     \* the calls of WritePcap::write_finalize and their results
    pc_rd,      \* io::ReadPcap: file position, the packet it holds, packets read
    sc,         \* ptp::SimulatedClock: its members
    sccall      \* the last call on the SimulatedClock: argument, result, members before

listVars == <<m_head, m_next, lop, lret>>
timeVars == <<tm, tcall, tret, tcount, wire>>
regaddrVars == <<ra>>
cfgVars == <<regs, buslog, cfgcall, cfgret>>
irqVars == <<m_irq_list, irq_status, irq_owed, irq_enable, irq_cursor,
             irq_walked, irq_called, irq_start, irq_raised>>
netVars == <<protos, chan, netlog, injected>>
pcapVars == <<pc_wr, pc_file, pc_sink, pc_log, pc_rd>>
clockVars == <<sc, sccall>>
vars == <<listVars, timeVars, regaddrVars, cfgVars, irqVars, netVars, pcapVars, clockVars>>

\* The variables a call on one part of the program leaves alone.
notList == <<timeVars, regaddrVars, cfgVars, irqVars, netVars, pcapVars, clockVars>>
notTime == <<listVars, regaddrVars, cfgVars, irqVars, netVars, pcapVars, clockVars>>
notRegaddr == <<listVars, timeVars, cfgVars, irqVars, netVars, pcapVars, clockVars>>
notCfg == <<listVars, timeVars, regaddrVars, irqVars, netVars, pcapVars, clockVars>>
notIrq == <<listVars, timeVars, regaddrVars, cfgVars, netVars, pcapVars, clockVars>>
notNet == <<listVars, timeVars, regaddrVars, cfgVars, irqVars, pcapVars, clockVars>>
notPcap == <<listVars, timeVars, regaddrVars, cfgVars, irqVars, netVars, clockVars>>
notClock == <<listVars, timeVars, regaddrVars, cfgVars, irqVars, netVars, pcapVars>>

-----------------------------------------------------------------------------
\* Intrusive singly-linked list (satcat5/list.h)

\* Number of list items (objects with an m_next pointer) in the model.
NItems == 3

\* The null pointer.
Null == 0

Items == 1..NItems
Ptrs == Items \cup {Null}

\* Two lists threaded through the same m_next pointer of the items.
Lists == {"A", "B"}

\* What a call that returns gives back, and the result of a call whose loop
\* never ends (a chain that loops back on itself).
Ret(v) == [ret |-> v]
NoReturn == [hang |-> TRUE]

\* More steps than any traversal of a null-terminated chain can take.
Fuel == NItems + 1

MemNow == [head |-> m_head, next |-> m_next]

\* A T** value: the address of a list head or of an item's m_next.
HeadLink(l) == [k |-> "head", l |-> l]
NextLink(i) == [k |-> "next", i |-> i]
\* The null T** that find_ptr returns at the end of the list.
NullLink == [k |-> "null"]

\* *ptr
Deref(mem, ptr) ==
    IF ptr.k = "head" THEN mem.head[ptr.l] ELSE mem.next[ptr.i]

\* *ptr = val
Store(mem, ptr, val) ==
    IF ptr.k = "head"
    THEN [mem EXCEPT !.head[ptr.l] = val]
    ELSE [mem EXCEPT !.next[ptr.i] = val]

\* item->m_next = val
SetNext(mem, item, val) == [mem EXCEPT !.next[item] = val]

RECURSIVE ContainsLoop(_, _, _, _)
ContainsLoop(mem, ptr, item, fuel) ==
    IF ptr = Null THEN Ret(FALSE)
    ELSE IF ptr = item THEN Ret(TRUE)
    ELSE IF fuel = 0 THEN NoReturn
    ELSE ContainsLoop(mem, mem.next[ptr], item, fuel - 1)

\* ListCore::contains(list, item)
contains(mem, l, item) == ContainsLoop(mem, mem.head[l], item, Fuel)

RECURSIVE FindPtrLoop(_, _, _, _)
FindPtrLoop(mem, ptr, item, fuel) ==
    IF Deref(mem, ptr) = item THEN Ret(ptr)
    ELSE IF Deref(mem, ptr) = Null THEN Ret(NullLink)
    ELSE IF fuel = 0 THEN NoReturn
    ELSE FindPtrLoop(mem, NextLink(Deref(mem, ptr)), item, fuel - 1)

\* find_ptr that begins at the link after the head pointer.
find_ptr_afterhead(mem, l, item) ==
    IF mem.head[l] = Null THEN Ret(HeadLink(l))
    ELSE FindPtrLoop(mem, NextLink(mem.head[l]), item, Fuel)

\* ListCore::find_ptr(&list, item)
find_ptr(mem, l, item) == FindPtrLoop(mem, HeadLink(l), item, Fuel)

RECURSIVE LenLoop(_, _, _, _)
LenLoop(mem, ptr, count, fuel) ==
    IF ptr = Null THEN Ret(count)
    ELSE IF fuel = 0 THEN NoReturn
    ELSE LenLoop(mem, mem.next[ptr], count + 1, fuel - 1)

\* ListCore::len(list)
len(mem, l) == LenLoop(mem, mem.head[l], 0, Fuel)

\* push_front without the link to the old head (item->m_next = list left out).
push_front_nolink(mem, l, item) == [mem EXCEPT !.head[l] = item]

\* push_front that makes the item the only one of the list.
push_front_alone(mem, l, item) ==
    [SetNext(mem, item, Null) EXCEPT !.head[l] = item]

\* ListCore::push_front(list, item)
push_front(mem, l, item) ==
    [SetNext(mem, item, mem.head[l]) EXCEPT !.head[l] = item]

\* ListCore::add(list, item)
add(mem, l, item) == push_front(mem, l, item)

\* push_back without the final item->m_next = 0.
push_back_keepnext(mem, l, item) ==
    LET ptr == find_ptr(mem, l, Null)
    IN  IF ptr = NoReturn THEN NoReturn
        ELSE Store(mem, ptr.ret, item)

\* ListCore::push_back(list, item)
push_back(mem, l, item) ==
    LET ptr == find_ptr(mem, l, Null)
    IN  IF ptr = NoReturn THEN NoReturn
        ELSE SetNext(Store(mem, ptr.ret, item), item, Null)

\* remove that sets item->m_next = 0 only for an item it found.
remove_iffound(mem, l, item) ==
    LET ptr == find_ptr(mem, l, item)
    IN  IF ptr = NoReturn THEN NoReturn
        ELSE IF ptr.ret # NullLink
             THEN SetNext(Store(mem, ptr.ret, mem.next[item]), item, Null)
             ELSE mem

\* remove without the final item->m_next = 0.
remove_keepnext(mem, l, item) ==
    LET ptr == find_ptr(mem, l, item)
    IN  IF ptr = NoReturn THEN NoReturn
        ELSE IF ptr.ret # NullLink
             THEN Store(mem, ptr.ret, mem.next[item])
             ELSE mem

\* ListCore::remove(list, item)
remove(mem, l, item) ==
    LET ptr == find_ptr(mem, l, item)
    IN  IF ptr = NoReturn THEN NoReturn
        ELSE SetNext(IF ptr.ret # NullLink
                     THEN Store(mem, ptr.ret, mem.next[item])
                     ELSE mem,
                     item, Null)

\* ListCore::pop_front(list): the item returned, null for the empty list.
pop_front_item(mem, l) == mem.head[l]

\* pop_front that takes the head of list A, whatever list it is given.
pop_front_listA(mem, l) ==
    IF mem.head["A"] = Null THEN mem
    ELSE LET item == mem.head["A"]
         IN  SetNext([mem EXCEPT !.head["A"] = mem.next[item]], item, Null)

\* pop_front without item->m_next = 0.
pop_front_keepnext(mem, l) ==
    IF mem.head[l] = Null THEN mem
    ELSE [mem EXCEPT !.head[l] = mem.next[mem.head[l]]]

\* ListCore::pop_front(list): the memory afterwards (the item returned is the
\* old head).
pop_front(mem, l) ==
    IF mem.head[l] = Null THEN mem
    ELSE LET item == mem.head[l]
         IN  SetNext([mem EXCEPT !.head[l] = mem.next[item]], item, Null)

\* insert_after without item->m_next = where->m_next.
insert_after_nolink(mem, where, item) ==
    IF where # Null /\ item # Null THEN SetNext(mem, where, item) ELSE mem

\* ListCore::insert_after(where, item)
insert_after(mem, where, item) ==
    IF where # Null /\ item # Null
    THEN SetNext(SetNext(mem, item, mem.next[where]), where, item)
    ELSE mem

\* add_safe without the look at the list.
add_safe_nocheck(mem, l, item) == add(mem, l, item)

\* ListCore::add_safe(list, item)
add_safe(mem, l, item) ==
    LET c == contains(mem, l, item)
    IN  IF c = NoReturn THEN NoReturn
        ELSE IF ~c.ret THEN add(mem, l, item) ELSE mem

\* get_index with the index decremented before the test.
RECURSIVE get_index_predec(_, _, _)
get_index_predec(mem, ptr, idx) ==
    IF ptr = Null \/ idx <= 1 THEN ptr
    ELSE get_index_predec(mem, mem.next[ptr], idx - 1)

\* ListCore::get_index(list, idx), with list the pointer ptr: the loop ends
\* at a null pointer or when idx, decremented after the test, was zero.
RECURSIVE get_index(_, _, _)
get_index(mem, ptr, idx) ==
    IF ptr = Null \/ idx = 0 THEN ptr
    ELSE get_index(mem, mem.next[ptr], idx - 1)

\* More iterations than there are pairs of pointers (slow, fast): a loop
\* that takes them all is in a pair it was in before, and never ends.
HasLoopFuel == (NItems + 1) * (NItems + 1)

RECURSIVE HasLoopWhile(_, _, _, _)
HasLoopWhile(mem, slow, fast, fuel) ==
    IF fast = Null \/ mem.next[fast] = Null THEN Ret(FALSE)
    ELSE IF slow = fast \/ slow = mem.next[fast] THEN Ret(TRUE)
    ELSE IF fuel = 0 THEN NoReturn
    ELSE HasLoopWhile(mem, mem.next[slow], mem.next[mem.next[fast]], fuel - 1)

\* has_loop with both pointers starting at the head.
has_loop_samestart(mem, ptr) ==
    IF ptr = Null THEN Ret(FALSE)
    ELSE HasLoopWhile(mem, ptr, ptr, HasLoopFuel)

\* ListCore::has_loop(list), with list the pointer ptr.
has_loop(mem, ptr) ==
    IF ptr = Null THEN Ret(FALSE)
    ELSE HasLoopWhile(mem, ptr, mem.next[ptr], HasLoopFuel)

\* add_list that takes two items off list2 for each that it adds.
RECURSIVE add_list_skip(_, _, _, _)
add_list_skip(mem, list1, list2, fuel) ==
    LET item == mem.head[list2]
    IN  IF item = Null THEN mem
        ELSE IF fuel = 0 THEN NoReturn
        ELSE add_list_skip(add(pop_front(pop_front(mem, list2), list2), list1, item),
                           list1, list2, fuel - 1)

\* ListCore::add_list(list1, list2): pop_front(list2) returns the head of
\* list2, which is added to list1, until that head is null.
RECURSIVE add_list(_, _, _, _)
add_list(mem, list1, list2, fuel) ==
    LET item == mem.head[list2]
    IN  IF item = Null THEN mem
        ELSE IF fuel = 0 THEN NoReturn
        ELSE add_list(add(pop_front(mem, list2), list1, item), list1, list2, fuel - 1)

\* A find_ptr that is at the link without following any.
FindPtrSteps_direct(mem, ptr, item, fuel) == 0

\* The times that find_ptr executes ptr = &((*ptr)->m_next).
RECURSIVE FindPtrSteps(_, _, _, _)
FindPtrSteps(mem, ptr, item, fuel) ==
    IF Deref(mem, ptr) = item \/ Deref(mem, ptr) = Null \/ fuel = 0 THEN 0
    ELSE 1 + FindPtrSteps(mem, NextLink(Deref(mem, ptr)), item, fuel - 1)

\* The times that contains executes ptr = ptr->m_next.
RECURSIVE ContainsSteps(_, _, _, _)
ContainsSteps(mem, ptr, item, fuel) ==
    IF ptr = Null \/ ptr = item \/ fuel = 0 THEN 0
    ELSE 1 + ContainsSteps(mem, mem.next[ptr], item, fuel - 1)

\* The times that get_index executes ptr = ptr->m_next.
RECURSIVE GetIndexSteps(_, _, _)
GetIndexSteps(mem, ptr, idx) ==
    IF ptr = Null \/ idx = 0 THEN 0
    ELSE 1 + GetIndexSteps(mem, mem.next[ptr], idx - 1)

\* The times that has_loop executes slow = slow->m_next.
RECURSIVE HasLoopSteps(_, _, _, _)
HasLoopSteps(mem, slow, fast, fuel) ==
    IF fast = Null \/ mem.next[fast] = Null THEN 0
    ELSE IF slow = fast \/ slow = mem.next[fast] THEN 0
    ELSE IF fuel = 0 THEN 0
    ELSE 1 + HasLoopSteps(mem, mem.next[slow], mem.next[mem.next[fast]], fuel - 1)

\* The items of a list in traversal order; NoReturn if the chain never ends.
RECURSIVE ItemsLoop(_, _, _, _)
ItemsLoop(mem, ptr, acc, fuel) ==
    IF ptr = Null THEN Ret(acc)
    ELSE IF fuel = 0 THEN NoReturn
    ELSE ItemsLoop(mem, mem.next[ptr], Append(acc, ptr), fuel - 1)

ItemSeq(mem, l) == ItemsLoop(mem, mem.head[l], <<>>, Fuel)

\* The chain from the head of l reaches a null pointer.
Acyclic(mem, l) == ItemSeq(mem, l) # NoReturn

OnList(mem, l, item) == contains(mem, l, item) = Ret(TRUE)

\* The items that the chain from the head of l passes, whether it ends in
\* null or comes back on itself.
RECURSIVE ChainLoop(_, _, _)
ChainLoop(mem, ptr, acc) ==
    IF ptr = Null \/ ptr \in acc THEN acc
    ELSE ChainLoop(mem, mem.next[ptr], acc \cup {ptr})

Chain(mem, l) == ChainLoop(mem, mem.head[l], {})

\* No argument and no value: the call has none that is kept.
NoCall == [par |-> 0, val |-> 0]

ListInit ==
    /\ m_head = [l \in Lists |-> Null]
    /\ m_next = [i \in Items |-> Null]
    /\ lop = "init"
    /\ lret = NoCall

\* One call of a list function that returns: the memory becomes what the
\* function leaves; a call that never returns has no next state.
ListCallRet(op, arg, val, after) ==
    /\ after # NoReturn
    /\ m_head' = after.head
    /\ m_next' = after.next
    /\ lop' = op
    /\ lret' = [par |-> arg, val |-> val]
    /\ UNCHANGED notList

ListCallArg(op, arg, after) == ListCallRet(op, arg, 0, after)

ListCall(op, after) == ListCallArg(op, 0, after)

\* One call of a list function that takes the list by value and returns a
\* value: the memory stays as it is.
ListQuery(op, arg, result) ==
    /\ result # NoReturn
    /\ lop' = op
    /\ lret' = [par |-> arg, val |-> result.ret]
    /\ UNCHANGED <<m_head, m_next, notList>>

PushFront(l, item) == ListCallArg("push_front", item, push_front(MemNow, l, item))
Add(l, item) == ListCallArg("add", item, add(MemNow, l, item))
PushBack(l, item) == ListCallArg("push_back", item, push_back(MemNow, l, item))
Remove(l, item) == ListCallArg("remove", item, remove(MemNow, l, item))
PopFront(l) == ListCallRet("pop_front", 0, pop_front_item(MemNow, l), pop_front(MemNow, l))
AddSafe(l, item) == ListCallArg("add_safe", item, add_safe(MemNow, l, item))
InsertAfter(where, item) ==
    ListCallRet("insert_after", item, where, insert_after(MemNow, where, item))

GetIndex(l, idx) == ListQuery("get_index", idx, Ret(get_index(MemNow, m_head[l], idx)))
HasLoop(l) == ListQuery("has_loop", 0, has_loop(MemNow, m_head[l]))
FindPtr(l, item) == ListQuery("find_ptr", item, find_ptr(MemNow, l, item))
AddList(l1, l2) == ListCall("add_list", add_list(MemNow, l1, l2, Fuel))

\* Any call on one of the lists ls, with any item as argument: also the calls
\* the header of list.h forbids (an item added twice), which the code accepts.
ListNext(ls) ==
    \E l \in ls :
        \/ \E item \in Items : PushFront(l, item)
        \/ \E item \in Items : Add(l, item)
        \/ \E item \in Items : PushBack(l, item)
        \/ \E item \in Items : Remove(l, item)
        \/ \E item \in Items : AddSafe(l, item)
        \/ PopFront(l)

\* The calls that look at one of the lists ls.
QueryNext(ls) ==
    \E l \in ls :
        \/ \E idx \in 0..(NItems + 1) : GetIndex(l, idx)
        \/ HasLoop(l)
        \/ \E item \in Ptrs : FindPtr(l, item)

\* The item is on none of the lists.
Free(item) == \A l \in Lists : contains(MemNow, l, item) = Ret(FALSE)

\* The calls on one list that keep to the header of list.h: add_safe of any
\* item, and remove, pop_front, get_index and has_loop.
SafeNext ==
    \/ \E item \in Items : AddSafe("A", item)
    \/ \E item \in Items : Remove("A", item)
    \/ PopFront("A")
    \/ QueryNext({"A"})

\* One list used as the header of list.h demands: add_safe, pop_front and
\* remove of any item, push_front, push_back and insert_after of an item that
\* is not on the list, insert_after behind an item that is; and the calls
\* that look at the list.
WellFormedNext ==
    \/ \E item \in Items : AddSafe("A", item)
    \/ \E item \in Items : Remove("A", item)
    \/ PopFront("A")
    \/ \E item \in Items : ~OnList(MemNow, "A", item) /\ PushFront("A", item)
    \/ \E item \in Items : ~OnList(MemNow, "A", item) /\ PushBack("A", item)
    \/ \E where, item \in Items :
           /\ OnList(MemNow, "A", where)
           /\ ~OnList(MemNow, "A", item)
           /\ InsertAfter(where, item)
    \/ QueryNext({"A"})

\* The items on no other list than l.
NotElsewhere(l) ==
    {item \in Items : \A b \in Lists \ {l} : item \notin Chain(MemNow, b)}

\* Two lists through the same m_next: every call on a list is made with an
\* item that is on that list or on none, insert_after behind an item of
\* the list.
FrameNext ==
    \/ \E l \in Lists : \E item \in NotElsewhere(l) : PushFront(l, item)
    \/ \E l \in Lists : \E item \in NotElsewhere(l) : PushBack(l, item)
    \/ \E l \in Lists : \E item \in NotElsewhere(l) : AddSafe(l, item)
    \/ \E l \in Lists : \E item \in NotElsewhere(l) : Remove(l, item)
    \/ \E l \in Lists : PopFront(l)
    \/ \E l \in Lists : \E where \in Chain(MemNow, l), item \in NotElsewhere(l) :
           InsertAfter(where, item)

\* Two lists, with items added as the header of list.h demands, an item
\* that is on no list or, for add_safe, on the list itself; remove is called
\* with any item, also one that is on the other list.
RemoveAnyNext ==
    \/ \E l \in Lists, item \in Items : Free(item) /\ PushFront(l, item)
    \/ \E l \in Lists, item \in Items : Free(item) /\ PushBack(l, item)
    \/ \E l \in Lists, item \in Items :
           (Free(item) \/ OnList(MemNow, l, item)) /\ AddSafe(l, item)
    \/ \E l \in Lists, where, item \in Items :
           OnList(MemNow, l, where) /\ Free(item) /\ InsertAfter(where, item)
    \/ \E l \in Lists, item \in Items : Remove(l, item)
    \/ \E l \in Lists : PopFront(l)

\* Two lists, used as the header of list.h demands: an item is added to a
\* list when it is on none, and removed from the list it is on.
TwoListsNext ==
    \/ \E l \in Lists, item \in Items : Free(item) /\ PushFront(l, item)
    \/ \E l \in Lists, item \in Items : Free(item) /\ PushBack(l, item)
    \/ \E l \in Lists, item \in Items : OnList(MemNow, l, item) /\ Remove(l, item)
    \/ \E l \in Lists : PopFront(l)
    \/ \E l1, l2 \in Lists : l1 # l2 /\ AddList(l1, l2)

-----------------------------------------------------------------------------
\* Wide integers.  The s64 and u64 values of ptp_time.h do not fit the 32-bit
\* integers of TLC, so an integer is held as a tuple of 16-bit
\* limbs, least significant first: every limb but the last is in 0..Radix-1
\* and the last one carries the sign.  Two wide integers are equal iff their
\* tuples are.  A multiplier or divisor is given by its factors, each at most
\* MaxFactor, so that no limb product leaves the 32-bit range.  The arithmetic
\* is written as functions, whose arguments are values when they are applied.

Radix == 2^16
MaxFactor == 2^15 - 1

BZero == <<0, 0, 0, 0, 0, 0, 0, 0>>
NLimbs == Len(BZero)
Limbs == Seq(Int)

BCarry[x \in Limbs, i \in Nat, c \in Int] ==
    IF i = NLimbs THEN <<x[i] + c>>
    ELSE <<(x[i] + c) % Radix>> \o BCarry[x, i + 1, (x[i] + c) \div Radix]

\* Carry propagation: the wide integer with the value of the limb tuple x.
BNorm[x \in Limbs] == BCarry[x, 1, 0]

\* A model integer as a wide integer.
BInt[i \in Int] == BNorm[<<i>> \o Tail(BZero)]

BAdd[x \in Limbs, y \in Limbs] == BNorm[[k \in 1..NLimbs |-> x[k] + y[k]]]
BSub[x \in Limbs, y \in Limbs] == BNorm[[k \in 1..NLimbs |-> x[k] - y[k]]]
BNeg[x \in Limbs] == BSub[BZero, x]
BIsNeg(x) == x[NLimbs] < 0
BLess(x, y) == BIsNeg(BSub[x, y])
BLeq(x, y) == ~BLess(y, x)

\* x * k for 0 <= k <= MaxFactor.
BMulSmall[x \in Limbs, k \in Nat] == BNorm[[i \in 1..NLimbs |-> x[i] * k]]

\* x times the product of the factors fs.
BMul[x \in Limbs, fs \in Limbs] ==
    IF fs = <<>> THEN x ELSE BMul[BMulSmall[x, Head(fs)], Tail(fs)]

\* The product of the factors fs.
BProd[fs \in Limbs] == BMul[BInt[1], fs]

\* 2^(16*n): limb n+1 is one.
BLimb[n \in Nat] == [k \in 1..NLimbs |-> IF k = n + 1 THEN 1 ELSE 0]

\* 2^n
BPow2[n \in Nat] ==
    BMul[BLimb[n \div 16], IF n % 16 = 15 THEN <<2^8, 2^7>> ELSE <<2^(n % 16)>>]

\* Long division of x >= 0 by 1 <= k <= MaxFactor, from limb i down, with
\* the remainder rem of the limbs above: the limbs 1..i of the quotient.
BDivLoop[x \in Limbs, i \in Nat, rem \in Nat, k \in Nat] ==
    IF i = 0 THEN <<>>
    ELSE Append(BDivLoop[x, i - 1, (rem * Radix + x[i]) % k, k],
                (rem * Radix + x[i]) \div k)

\* Floor of x / k for x >= 0.
BDivSmall[x \in Limbs, k \in Nat] == BDivLoop[x, NLimbs, 0, k]

BDivNat[x \in Limbs, fs \in Limbs] ==
    IF fs = <<>> THEN x ELSE BDivNat[BDivSmall[x, Head(fs)], Tail(fs)]

\* The C++ operators a / b and a % b on signed integers, for b the product of
\* fs: the quotient is truncated toward zero and the remainder has the sign
\* of a.
CDiv[a \in Limbs, fs \in Limbs] ==
    IF BIsNeg(a) THEN BNeg[BDivNat[BNeg[a], fs]] ELSE BDivNat[a, fs]
CRem[a \in Limbs, fs \in Limbs] == BSub[a, BMul[CDiv[a, fs], fs]]

INT64_MAX == BSub[BPow2[63], BInt[1]]
INT64_MIN == BNeg[BPow2[63]]

\* The value fits a signed 64-bit integer.
FitsS64(x) == BLeq(INT64_MIN, x) /\ BLeq(x, INT64_MAX)

-----------------------------------------------------------------------------
\* ptp::Time (satcat5/ptp_time.h)

\* The scaling factors, each written as the factors of its value.
NSEC_PER_SEC == <<31250, 32000>>        \* 1000000000
NSEC_PER_MSEC == <<1000, 1000>>         \* 1000000
NSEC_PER_USEC == <<1000>>               \* 1000
SUBNS_PER_NSEC == <<256, 256>>          \* 65536
SUBNS_PER_USEC == SUBNS_PER_NSEC \o NSEC_PER_USEC
SUBNS_PER_MSEC == SUBNS_PER_NSEC \o NSEC_PER_MSEC
SUBNS_PER_SEC == SUBNS_PER_NSEC \o NSEC_PER_SEC

\* util::modulo and util::divide: remainder in [0, b) and the matching floored
\* quotient, for negative a as well.
modulo[a \in Limbs, fs \in Limbs] ==
    IF BIsNeg(CRem[a, fs]) THEN BAdd[CRem[a, fs], BProd[fs]] ELSE CRem[a, fs]
divide[a \in Limbs, fs \in Limbs] == CDiv[BSub[a, modulo[a, fs]], fs]

\* util::div_floor
div_floor[a \in Limbs, fs \in Limbs] == divide[a, fs]

\* The low n limbs of x: x modulo 2^(16*n), the conversion to an unsigned
\* integer of that width.
LowLimbs[x \in Limbs, n \in Nat] == [k \in 1..NLimbs |-> IF k <= n THEN x[k] ELSE 0]

\* Conversions (u16)x, (u32)x, a 48-bit field, (u64)x and (s64)x.
U16(x) == LowLimbs[x, 1]
U32(x) == LowLimbs[x, 2]
U48(x) == LowLimbs[x, 3]
U64(x) == LowLimbs[x, 4]
S64(x) == IF BLess(INT64_MAX, U64(x)) THEN BSub[U64(x), BPow2[64]] ELSE U64(x)

\* A Time object: the members m_secs and m_subns.
MkTime(secs, subns) == [m_secs |-> secs, m_subns |-> subns]

\* Time::Time()
TIME_ZERO == MkTime(BZero, BZero)

\* Time::Time(s64) computed with the operators / and % of the language.
Time_subns_trunc(n) == MkTime(CDiv[n, SUBNS_PER_SEC], CRem[n, SUBNS_PER_SEC])

\* Time::Time(s64 subnanoseconds)
Time_subns(n) == MkTime(divide[n, SUBNS_PER_SEC], modulo[n, SUBNS_PER_SEC])

\* Time::normalize(): carry whole seconds of m_subns into m_secs.
normalize(t) ==
    MkTime(BAdd[t.m_secs, divide[t.m_subns, SUBNS_PER_SEC]],
           modulo[t.m_subns, SUBNS_PER_SEC])

\* Time::Time(u64 seconds, u32 nanoseconds, u16 subnanoseconds)
Time_fields(seconds, nanoseconds, subnanoseconds) ==
    normalize(MkTime(S64(seconds),
                     BAdd[BMul[nanoseconds, SUBNS_PER_NSEC], subnanoseconds]))

\* Time::correction with the division of field_nsec in place of the modulo.
correction_div(t) == U64(divide[t.m_subns, SUBNS_PER_NSEC])

\* Time::field_secs, field_nsec, field_subns, correction
field_secs(t) == t.m_secs
\* field_nsec() that rounds to the nearest nanosecond instead of down.
field_nsec_nearest(t) ==
    U32(div_floor[BAdd[t.m_subns, BInt[32768]], SUBNS_PER_NSEC])
field_nsec(t) == U32(div_floor[t.m_subns, SUBNS_PER_NSEC])
field_subns(t) == U64(t.m_subns)
correction(t) == U64(modulo[t.m_subns, SUBNS_PER_NSEC])

\* The member-wise sum, difference, negation, product and quotient that the
\* operators compute before they reduce the result to canonical form.
add_fields(a, b) == MkTime(BAdd[a.m_secs, b.m_secs], BAdd[a.m_subns, b.m_subns])
sub_fields(a, b) == MkTime(BSub[a.m_secs, b.m_secs], BSub[a.m_subns, b.m_subns])
neg_fields(t) == MkTime(BNeg[t.m_secs], BNeg[t.m_subns])
mul_fields(t, scale) ==
    MkTime(BMul[t.m_secs, <<scale>>], BMul[t.m_subns, <<scale>>])
\* The seconds are divided and their remainder is carried into the
\* subnanoseconds before those are divided; the intermediate value is wider
\* than 64 bits.
div_fields(t, scale) ==
    MkTime(divide[t.m_secs, <<scale>>],
           CDiv[BAdd[BMul[modulo[t.m_secs, <<scale>>], SUBNS_PER_SEC],
                     t.m_subns],
                <<scale>>])

\* Time::operator+ without the carry into the seconds.
operator_plus_nocarry(a, b) ==
    MkTime(add_fields(a, b).m_secs,
           modulo[add_fields(a, b).m_subns, SUBNS_PER_SEC])

\* Time::operator+ and operator+=
operator_plus(a, b) == normalize(add_fields(a, b))

\* Time::operator- and operator-=
operator_minus(a, b) == normalize(sub_fields(a, b))

\* Time::operator-()
\* Unary minus that negates both members and does not re-canonicalize.
operator_neg_raw(t) == neg_fields(t)
operator_neg(t) == normalize(neg_fields(t))

\* Time::abs()
abs(t) == IF BIsNeg(t.m_secs) THEN operator_neg(t) ELSE t

\* Half a nanosecond, Time(SUBNS_PER_NSEC / 2).
HalfNsec == Time_subns(BInt[32768])

\* round_secs() that adds nothing before it reads the seconds.
round_secs_down(t) == field_secs(t)

\* Time::round_secs
round_secs(t) == field_secs(operator_plus(t, HalfNsec))

\* Time::round_nsec
round_nsec(t) == field_nsec(operator_plus(t, HalfNsec))

\* Time::operator* and operator*=
operator_mul(t, scale) == normalize(mul_fields(t, scale))

\* Time::operator/ and operator/=
operator_div(t, scale) == normalize(div_fields(t, scale))

\* Canonical form: 0 <= m_subns < SUBNS_PER_SEC.
Canonical(t) ==
    /\ ~BIsNeg(t.m_subns)
    /\ BLess(t.m_subns, BProd[SUBNS_PER_SEC])

\* The time as one integer, in subnanoseconds.
TotalSubns(t) == BAdd[BMul[t.m_secs, SUBNS_PER_SEC], t.m_subns]

\* Both members hold a value of their type, s64.
InRange(t) == FitsS64(t.m_secs) /\ FitsS64(t.m_subns)

\* ONE_DAY, in subnanoseconds.
ONE_DAY == BProd[SUBNS_PER_SEC \o <<3600, 24>>]

\* The time difference is within +/- 24 hours.
WithinDay(t) ==
    /\ BLeq(BNeg[ONE_DAY], TotalSubns(t))
    /\ BLeq(TotalSubns(t), ONE_DAY)

\* The value the delta_* methods return for a time beyond their range.
Saturated(t) == IF BIsNeg(t.m_secs) THEN INT64_MIN ELSE INT64_MAX

\* The time in units of the product of unit subnanoseconds, rounded down and
\* rounded to nearest.
DeltaFloor(t, unit) == divide[TotalSubns(t), unit]
DeltaNearest(t, unit) ==
    divide[BAdd[TotalSubns(t), BDivNat[BProd[unit], <<2>>]], unit]

\* A conversion that keeps the low 64 bits of the quotient.
delta_wrap(t, unit) == {S64(DeltaFloor(t, unit))}

\* Time::delta_subns .. delta_msec: the values a conversion may return.  Within
\* +/- 24 hours it is the converted value, rounded down or to nearest; beyond,
\* it is that value or the limit of s64 on the side of the time, and the limit
\* whenever the converted value is not an s64.
delta(t, unit) ==
    LET exact == {q \in {DeltaFloor(t, unit), DeltaNearest(t, unit)} : FitsS64(q)}
    IN  IF WithinDay(t) THEN exact ELSE exact \cup {Saturated(t)}

DeltaOps == {"delta_subns", "delta_nsec", "delta_usec", "delta_msec"}
DeltaUnit(op) ==
    CASE op = "delta_subns" -> <<>>
      [] op = "delta_nsec" -> SUBNS_PER_NSEC
      [] op = "delta_usec" -> SUBNS_PER_USEC
      [] op = "delta_msec" -> SUBNS_PER_MSEC

\* io::Writeable::write_u32, write_u48, write_u64: the low n bytes of x, most
\* significant byte first.
BytesBE(x, n) ==
    [i \in 1..n |->
        IF (n - i) % 2 = 0 THEN x[(n - i) \div 2 + 1] % 256
        ELSE x[(n - i) \div 2 + 1] \div 256]

\* io::Readable::read_u32, read_u48, read_u64: the unsigned integer whose
\* bytes are bs, most significant byte first.
FromBytesBE(bs) ==
    BNorm[[k \in 1..NLimbs |->
        IF 2 * k <= Len(bs)
        THEN bs[Len(bs) - 2 * k + 2] + 256 * bs[Len(bs) - 2 * k + 1]
        ELSE 0]]

TimestampLen == 10
CorrectionLen == 8

\* Time::write_to: u48 seconds, then u32 nanoseconds.
write_to(t) == BytesBE(field_secs(t), 6) \o BytesBE(field_nsec(t), 4)

\* Time::read_from on the bytes bs of a timestamp.
read_from(bs) ==
    MkTime(FromBytesBE(SubSeq(bs, 1, 6)),
           BMul[FromBytesBE(SubSeq(bs, 7, TimestampLen)), SUBNS_PER_NSEC])

\* The correctionField of a PTP message: an s64 in subnanoseconds.
write_correction(t) == BytesBE(correction(t), CorrectionLen)
read_correction(bs) == Time_subns(S64(FromBytesBE(bs)))

\* A call that returns nothing.
Void == [void |-> TRUE]

\* Arguments of the constructor Time(s64): both signs, a value that is not a
\* whole number of nanoseconds, and the limits of s64.
TestSubns ==
    { BInt[-1], BInt[98305],
      BNeg[BAdd[BMul[BInt[5], <<256, 64, 31250, 32000>>], BInt[1]]],
      INT64_MAX, INT64_MIN }

\* Arguments <<seconds, nanoseconds, subnanoseconds>> of the constructor
\* Time(u64, u32, u16): times within and at 24 hours, at and beyond the last
\* second of a 48-bit field, beyond the range of each delta_* unit, seconds
\* that are negative as an s64, and nanoseconds of more than a second.
TestFields ==
    { <<BInt[123456], BInt[789000000], BInt[32768]>>,
      <<BInt[86400], BZero, BZero>>,
      <<BSub[BPow2[48], BInt[1]], BInt[999999999], BInt[65535]>>,
      <<BPow2[48], BZero, BInt[1]>>,
      <<BInt[140738], BZero, BZero>>,
      <<BMul[BInt[92233721], <<100>>], BInt[500000000], BZero>>,
      <<BMul[BInt[92233721], <<100, 1000>>], BZero, BInt[1]>>,
      <<BMul[BInt[92233721], <<100, 1000, 1000>>], BZero, BZero>>,
      <<BSub[BPow2[64], BInt[2]], BInt[250000000], BZero>>,
      <<BSub[BPow2[63], BInt[1]], BZero, BZero>>,
      <<BInt[5], BSub[BPow2[32], BInt[1]], BInt[65535]>> }

\* Right-hand sides of + and -: three quarters of a second and a bit, and the
\* negative time of one subnanosecond.
TestTimes ==
    { Time_subns(BAdd[BMul[BInt[3], <<256, 64, 31250, 32000>>], BInt[40000]]),
      Time_subns(BInt[-1]) }

\* Scales of * and /.
TestScales == {2, 3}

\* Arithmetic operators applied to one Time object after its construction.
MaxTimeOps == 2

TimeInit ==
    /\ tm = TIME_ZERO
    /\ tcall = [op |-> "Time", arg |-> <<>>]
    /\ tret = Void
    /\ tcount = 0
    /\ wire = <<>>

\* A call on tm that leaves the message bytes alone.
TimeCall(op, arg, t, ret, count) ==
    /\ tm' = t
    /\ tcall' = [op |-> op, arg |-> arg]
    /\ tret' = ret
    /\ tcount' = count
    /\ UNCHANGED <<wire, notTime>>

\* An arithmetic operator on tm with the result t, of which raw is the
\* member-wise value before normalize(): the call is made when no s64
\* overflows, no message is in flight and the bound on the operators allows.
TimeArith(op, arg, raw, t) ==
    /\ wire = <<>>
    /\ tcount < MaxTimeOps
    /\ InRange(raw)
    /\ InRange(t)
    /\ TimeCall(op, arg, t, Void, tcount + 1)

\* tm = Time(n), where the object begins.
Construct(n) ==
    /\ tcall.op = "Time"
    /\ TimeCall("Time_subns", n, Time_subns(n), Void, 0)

\* tm = Time(seconds, nanoseconds, subnanoseconds), where the object begins.
ConstructFields(f) ==
    /\ tcall.op = "Time"
    /\ TimeCall("Time_fields", f, Time_fields(f[1], f[2], f[3]), Void, 0)

PlusAssign(b) ==
    TimeArith("operator_plus", b, add_fields(tm, b), operator_plus(tm, b))
MinusAssign(b) ==
    TimeArith("operator_minus", b, sub_fields(tm, b), operator_minus(tm, b))
Negate ==
    TimeArith("operator_neg", <<>>, neg_fields(tm), operator_neg(tm))
Abs ==
    TimeArith("abs", <<>>, IF BIsNeg(tm.m_secs) THEN neg_fields(tm) ELSE tm,
              abs(tm))
MulAssign(scale) ==
    TimeArith("operator_mul", scale, mul_fields(tm, scale), operator_mul(tm, scale))
DivAssign(scale) ==
    TimeArith("operator_div", scale, div_fields(tm, scale), operator_div(tm, scale))

\* One of delta_subns(), delta_nsec(), delta_usec(), delta_msec() on tm.
Delta(op) ==
    /\ wire = <<>>
    /\ \E r \in delta(tm, DeltaUnit(op)) : TimeCall(op, <<>>, tm, Ret(r), tcount)

\* The sender writes tm as the timestamp of a message and its correction()
\* as the correctionField.
WriteTo ==
    /\ wire = <<>>
    /\ wire' = write_to(tm) \o write_correction(tm)
    /\ tcall' = [op |-> "write_to", arg |-> <<>>]
    /\ tret' = Void
    /\ UNCHANGED <<tm, tcount, notTime>>

\* The receiver reads the timestamp into a Time, adds the correctionField and
\* has the sum: the value returned here.
ReadFrom ==
    /\ Len(wire) = TimestampLen + CorrectionLen
    /\ wire' = <<>>
    /\ tcall' = [op |-> "read_from", arg |-> <<>>]
    /\ tret' = Ret(operator_plus(read_from(SubSeq(wire, 1, TimestampLen)),
                                 read_correction(SubSeq(wire, TimestampLen + 1,
                                                        Len(wire)))))
    /\ UNCHANGED <<tm, tcount, notTime>>

\* A Time object and the arithmetic on it.
TimeArithNext ==
    \/ \E n \in TestSubns : Construct(n)
    \/ \E f \in TestFields : ConstructFields(f)
    \/ \E b \in TestTimes : PlusAssign(b)
    \/ \E b \in TestTimes : MinusAssign(b)
    \/ Negate
    \/ Abs
    \/ \E scale \in TestScales : MulAssign(scale)
    \/ \E scale \in TestScales : DivAssign(scale)

\* A Time object of either sign, its conversions and its way through a PTP
\* message.
TimePtpNext ==
    \/ \E n \in TestSubns : Construct(n)
    \/ \E f \in TestFields : ConstructFields(f)
    \/ Negate
    \/ \E op \in DeltaOps : Delta(op)
    \/ WriteTo
    \/ ReadFrom

TimeNext == TimeArithNext \/ TimePtpNext

-----------------------------------------------------------------------------
\* ptp::SimulatedClock (hal_test/ptp_simclock.cc)

\* Calls of clock_adjust, clock_set, clock_rate and run on one clock.
MaxClockOps == 2

\* Amounts of clock_adjust and times of clock_set: three seconds and a bit,
\* and the subnanosecond before zero.
ClockTimes == TestTimes

\* Rate offsets of clock_rate, and the values that m_offset, which the
\* constructor does not set, may have after it.
ClockOffsets == {-5, 0, 7}

\* The resolution of the accumulator m_nco_accum: 2^32 ticks in a
\* subnanosecond.
TICKS_PER_SUBNS == <<256, 256, 256, 256>>
TICKS_PER_SEC == SUBNS_PER_SEC \o TICKS_PER_SUBNS

\* Nominal frequencies of the constructor, which divide TICKS_PER_SEC: 100 MHz,
\* a whole number of subnanoseconds in a clock cycle, and 2^27 Hz, a quarter
\* of a subnanosecond over.
NominalHz == {<<10000, 10000>>, <<16384, 8192>>}

\* Clock cycles of one run(): num_clocks, a few cycles and the cycles of
\* thirty-two seconds at 100 MHz, 3 * 2^30.
TestClocks == {<<1>>, <<3>>, <<16384, 16384, 12>>}

\* m_scale_nominal.convert(offset): the rate offset in ticks per clock cycle,
\* 3 * 2^48 ticks for each unit of these offsets, so that the offset -5 is
\* more than the nominal increment.
convert(offset) == BMul[BInt[offset], <<3, 256, 256, 256, 256, 256, 256>>]

\* SimulatedClock::SimulatedClock: the increment of a clock cycle is
\* TICKS_PER_SEC / nominal_hz, the accumulator, the counters and m_rtc are
\* zero, m_offset is left as it is.  nrun counts the calls of run().
SimulatedClock(nominal_hz, offset) ==
    [made |-> TRUE, m_rtc |-> Time_subns(BZero), m_count_coarse |-> 0,
     m_count_fine |-> 0, m_offset |-> offset,
     m_nco_rate |-> divide[BProd[TICKS_PER_SEC], nominal_hz],
     m_nco_accum |-> BZero, nrun |-> 0]

\* SimulatedClock::clock_now
clock_now(clk) == clk.m_rtc

\* A clock_adjust that sets the clock to the amount.
clock_adjust_set(clk, amount) ==
    [clk EXCEPT !.m_count_coarse = @ + 1, !.m_rtc = amount]

\* SimulatedClock::clock_adjust: the members afterwards.
clock_adjust(clk, amount) ==
    [clk EXCEPT !.m_count_coarse = @ + 1, !.m_rtc = operator_plus(@, amount)]

\* SimulatedClock::clock_adjust: the value returned, Time(0).
clock_adjust_ret == Time_subns(BZero)

\* SimulatedClock::clock_set
clock_set(clk, t) ==
    [clk EXCEPT !.m_count_coarse = @ + 1, !.m_rtc = t]

\* SimulatedClock::clock_rate
clock_rate(clk, offset) ==
    [clk EXCEPT !.m_count_fine = @ + 1, !.m_offset = offset]

\* The increment of one clock cycle without the conversion to u64.
nco_step_signed(clk) == BAdd[clk.m_nco_rate, convert(clk.m_offset)]

\* SimulatedClock::run: rate, u64(m_nco_rate + delta).
nco_step(clk) == U64(BAdd[clk.m_nco_rate, convert(clk.m_offset)])

\* SimulatedClock::run: m_nco_accum after m_nco_accum += incr * rate.
nco_sum(clk, num_clocks) == BAdd[clk.m_nco_accum, BMul[nco_step(clk), num_clocks]]

\* SimulatedClock::run: m_nco_accum / scale, the subnanoseconds that the
\* call adds, before the conversion to s64.
run_subns(clk, num_clocks) == divide[nco_sum(clk, num_clocks), TICKS_PER_SUBNS]

\* run that drops the ticks left over below a subnanosecond.
run_noleftover(clk, num_clocks) ==
    LET sum == nco_sum(clk, num_clocks)
    IN  [clk EXCEPT !.nrun = @ + 1,
                    !.m_rtc = operator_plus(@, Time_subns(S64(divide[sum, TICKS_PER_SUBNS]))),
                    !.m_nco_accum = BZero]

\* SimulatedClock::run, for the clock cycles num_clocks of dt.
run(clk, num_clocks) ==
    LET sum == nco_sum(clk, num_clocks)
    IN  [clk EXCEPT !.nrun = @ + 1,
                    !.m_rtc = operator_plus(@, Time_subns(S64(divide[sum, TICKS_PER_SUBNS]))),
                    !.m_nco_accum = modulo[sum, TICKS_PER_SUBNS]]

\* No clock yet.
NoClock ==
    [made |-> FALSE, m_rtc |-> TIME_ZERO, m_count_coarse |-> 0,
     m_count_fine |-> 0, m_offset |-> 0, m_nco_rate |-> BZero,
     m_nco_accum |-> BZero, nrun |-> 0]

ClockInit ==
    /\ sc = NoClock
    /\ sccall = [op |-> "none", amount |-> TIME_ZERO, ret |-> TIME_ZERO,
                 old |-> NoClock, clocks |-> <<>>]

\* One call on the clock, with the Time that is its argument or TIME_ZERO and
\* the clock cycles of a run().
ClockCallRun(op, amount, ret, after, num_clocks) ==
    /\ sc' = after
    /\ sccall' = [op |-> op, amount |-> amount, ret |-> ret, old |-> sc,
                  clocks |-> num_clocks]
    /\ UNCHANGED notClock

ClockCall(op, amount, ret, after) == ClockCallRun(op, amount, ret, after, <<>>)

ClockOps(clk) == clk.m_count_coarse + clk.m_count_fine + clk.nrun

SimConstruct(nominal_hz, offset) ==
    /\ ~sc.made
    /\ ClockCall("SimulatedClock", TIME_ZERO, TIME_ZERO,
                 SimulatedClock(nominal_hz, offset))

ClockNow ==
    /\ sc.made
    /\ ClockCall("clock_now", TIME_ZERO, clock_now(sc), sc)

ClockAdjust(amount) ==
    /\ sc.made
    /\ ClockOps(sc) < MaxClockOps
    /\ ClockCall("clock_adjust", amount, clock_adjust_ret, clock_adjust(sc, amount))

ClockSet(t) ==
    /\ sc.made
    /\ ClockOps(sc) < MaxClockOps
    /\ ClockCall("clock_set", t, TIME_ZERO, clock_set(sc, t))

ClockRate(offset) ==
    /\ sc.made
    /\ ClockOps(sc) < MaxClockOps
    /\ ClockCall("clock_rate", TIME_ZERO, TIME_ZERO, clock_rate(sc, offset))

\* run(dt) with a dt of num_clocks cycles of the actual frequency.
Run(num_clocks) ==
    /\ sc.made
    /\ ClockOps(sc) < MaxClockOps
    /\ ClockCallRun("run", TIME_ZERO, TIME_ZERO, run(sc, num_clocks), num_clocks)

ClockNext ==
    \/ \E nominal_hz \in NominalHz, offset \in ClockOffsets :
           SimConstruct(nominal_hz, offset)
    \/ \E num_clocks \in TestClocks : Run(num_clocks)
    \/ ClockNow
    \/ \E amount \in ClockTimes : ClockAdjust(amount)
    \/ \E t \in ClockTimes : ClockSet(t)
    \/ \E offset \in ClockOffsets : ClockRate(offset)

-----------------------------------------------------------------------------
\* ConfigBus (satcat5/cfgbus_core.h)

DEVS_PER_CFGBUS == 256
REGS_PER_DEVICE == 1024
MAX_DEVICES == 256
MAX_TOTAL_REGS == REGS_PER_DEVICE * MAX_DEVICES

\* The combined address with the devices of one bus as the multiplier.
get_regaddr_devs(dev, reg) == DEVS_PER_CFGBUS * dev + reg

\* ConfigBus::get_regaddr
get_regaddr(dev, reg) == REGS_PER_DEVICE * dev + reg

\* Device and register numbers at both ends of their ranges and one past.
TestDevs == {0, 1, MAX_DEVICES - 1, MAX_DEVICES}
TestRegs == {0, 1, REGS_PER_DEVICE - 1, REGS_PER_DEVICE}

RegaddrInit == ra = <<>>

\* A call of get_regaddr; the call before it is remembered.
GetRegaddr(dev, reg) ==
    /\ ra' = <<[dev |-> dev, reg |-> reg, addr |-> get_regaddr(dev, reg)]>>
             \o (IF ra = <<>> THEN <<>> ELSE <<ra[1]>>)
    /\ UNCHANGED notRegaddr

RegaddrNext == \E dev \in TestDevs, reg \in TestRegs : GetRegaddr(dev, reg)

\* Registers of the memory-mapped bus in the model, and the longest bulk
\* operation.
NRegs == 3
MaxCount == 2

RegAddrs == 0..(NRegs - 1)

\* Register values.
RegVals == {0, 1}

\* IoStatus::OK
IOSTATUS_OK == "OK"

\* A bus: its registers and the accesses made so far.
MkBus(r, log) == [regs |-> r, log |-> log]

\* ConfigBusMmap::read and ConfigBusMmap::write: one access to the register at
\* m_base_ptr + regaddr.
mmap_read(bus, regaddr) ==
    [bus |-> MkBus(bus.regs,
                   Append(bus.log, [op |-> "read", addr |-> regaddr,
                                    val |-> bus.regs[regaddr]])),
     val |-> bus.regs[regaddr]]
mmap_write(bus, regaddr, wrval) ==
    MkBus([bus.regs EXCEPT ![regaddr] = wrval],
          Append(bus.log, [op |-> "write", addr |-> regaddr, val |-> wrval]))

\* The loop of read_array and read_repeat: read number a and those after it,
\* the address advancing by incr from one read to the next.
RECURSIVE ReadLoop(_, _, _, _, _, _)
ReadLoop(bus, regaddr, incr, count, a, result) ==
    IF a >= count THEN [bus |-> bus, status |-> IOSTATUS_OK, result |-> result]
    ELSE LET rd == mmap_read(bus, regaddr + incr * a)
         IN  ReadLoop(rd.bus, regaddr, incr, count, a + 1, Append(result, rd.val))

\* The loop of write_array and write_repeat.
RECURSIVE WriteLoop(_, _, _, _, _, _)
WriteLoop(bus, regaddr, incr, count, a, data) ==
    IF a >= count THEN [bus |-> bus, status |-> IOSTATUS_OK, result |-> <<>>]
    ELSE WriteLoop(mmap_write(bus, regaddr + incr * a, data[a + 1]),
                   regaddr, incr, count, a + 1, data)

\* ConfigBus::read_repeat
read_repeat(bus, regaddr, count) == ReadLoop(bus, regaddr, 0, count, 0, <<>>)

\* A read_array whose address does not advance.
read_array_fixed(bus, regaddr, count) == ReadLoop(bus, regaddr, 0, count, 0, <<>>)

\* ConfigBus::read_array
read_array(bus, regaddr, count) == ReadLoop(bus, regaddr, 1, count, 0, <<>>)

\* ConfigBus::write_repeat
write_repeat(bus, regaddr, count, data) ==
    WriteLoop(bus, regaddr, 0, count, 0, data)

\* ConfigBus::write_array
write_array(bus, regaddr, count, data) ==
    WriteLoop(bus, regaddr, 1, count, 0, data)

CfgInit ==
    /\ regs = [a \in RegAddrs |-> 0]
    /\ buslog = <<>>
    /\ cfgcall = [op |-> "ConfigBusMmap", regaddr |-> 0, count |-> 0, data |-> <<>>]
    /\ cfgret = [status |-> IOSTATUS_OK, result |-> <<>>]

\* A call on the bus that returns out: the registers and the accesses are
\* those the call leaves, counted from the start of the call.
CfgCall(op, regaddr, count, data, out) ==
    /\ regs' = out.bus.regs
    /\ buslog' = out.bus.log
    /\ cfgcall' = [op |-> op, regaddr |-> regaddr, count |-> count, data |-> data]
    /\ cfgret' = [status |-> out.status, result |-> out.result]
    /\ UNCHANGED notCfg

\* The bus as a call finds it.
BusNow == MkBus(regs, <<>>)

ReadArray(regaddr, count) ==
    /\ regaddr + count <= NRegs
    /\ CfgCall("read_array", regaddr, count, <<>>,
               read_array(BusNow, regaddr, count))
ReadRepeat(regaddr, count) ==
    CfgCall("read_repeat", regaddr, count, <<>>,
            read_repeat(BusNow, regaddr, count))
WriteArray(regaddr, count, data) ==
    /\ regaddr + count <= NRegs
    /\ CfgCall("write_array", regaddr, count, data,
               write_array(BusNow, regaddr, count, data))
WriteRepeat(regaddr, count, data) ==
    CfgCall("write_repeat", regaddr, count, data,
            write_repeat(BusNow, regaddr, count, data))

CfgNext ==
    \E regaddr \in RegAddrs, count \in 0..MaxCount :
        \/ ReadArray(regaddr, count)
        \/ ReadRepeat(regaddr, count)
        \/ \E data \in [1..count -> RegVals] : WriteArray(regaddr, count, data)
        \/ \E data \in [1..count -> RegVals] : WriteRepeat(regaddr, count, data)

-----------------------------------------------------------------------------
\* ConfigBus interrupts (satcat5/cfgbus_core.h)

\* Peripherals with an interrupt, each with its cfg::Interrupt handler.
NHandlers == 2
Handlers == 1..NHandlers

\* The value of irq_cursor outside ConfigBus::irq_poll, and in it with the
\* handlers rest still to visit.
Idle == [idle |-> TRUE]
Cursor(rest) == [rest |-> rest]
AtEnd == Cursor(<<>>)

\* The elements of a sequence, and how often h is among them.
Range(q) == {q[i] : i \in DOMAIN q}
Count(q, h) == Cardinality({i \in DOMAIN q : q[i] = h})

\* ConfigBus::register_irq: m_irq_list.add(obj), which puts obj at the head.
register_irq(list, h) == <<h>> \o list

\* ConfigBus::unregister_irq: m_irq_list.remove(obj)
unregister_irq(list, h) == SelectSeq(list, LAMBDA g : g # h)

\* The shared interrupt signal: the logical OR of the peripherals' status.
irq_line(st) == \E h \in Handlers : st[h]

\* A handler that takes the shared signal for its own.
irq_pending_shared(st, h) == irq_line(st)

\* The handler reads the interrupt-status register of its peripheral.
irq_pending(st, h) == st[h]

\* An acknowledge that clears the status of every peripheral.
irq_ack_all(st, h) == [g \in Handlers |-> FALSE]

\* The handler acknowledges the interrupt of its peripheral.
irq_ack(st, h) == [st EXCEPT ![h] = FALSE]

IrqInit ==
    /\ m_irq_list = <<>>
    /\ irq_status = [h \in Handlers |-> FALSE]
    /\ irq_owed = {}
    /\ irq_enable = TRUE
    /\ irq_cursor = Idle
    /\ irq_walked = <<>>
    /\ irq_called = <<>>
    /\ irq_start = {}
    /\ irq_raised = {}

\* register_irq and unregister_irq change the list under the AtomicLock, which
\* keeps the interrupt out: they run while no irq_poll does.
RegisterIrq(h) ==
    /\ irq_cursor = Idle
    /\ h \notin Range(m_irq_list)
    /\ m_irq_list' = register_irq(m_irq_list, h)
    /\ UNCHANGED <<irq_status, irq_owed, irq_enable, irq_cursor, irq_walked,
                   irq_called, irq_start, irq_raised, notIrq>>

UnregisterIrq(h) ==
    /\ irq_cursor = Idle
    /\ h \in Range(m_irq_list)
    /\ m_irq_list' = unregister_irq(m_irq_list, h)
    /\ UNCHANGED <<irq_status, irq_owed, irq_enable, irq_cursor, irq_walked,
                   irq_called, irq_start, irq_raised, notIrq>>

\* The peripheral of handler h sets its status bit, at any time.
RaiseIrq(h) ==
    /\ ~irq_status[h]
    /\ irq_status' = [irq_status EXCEPT ![h] = TRUE]
    /\ irq_owed' = irq_owed \cup {h}
    /\ irq_raised' = IF irq_cursor = Idle THEN irq_raised ELSE irq_raised \cup {h}
    /\ UNCHANGED <<m_irq_list, irq_enable, irq_cursor, irq_walked, irq_called,
                   irq_start, notIrq>>

\* ConfigBusMmap::irq_event: the armed line is asserted, the interrupt is
\* taken with the line masked, and irq_poll starts at the head of the list.
IrqEvent ==
    /\ irq_cursor = Idle
    /\ irq_enable
    /\ irq_line(irq_status)
    /\ irq_enable' = FALSE
    /\ irq_cursor' = Cursor(m_irq_list)
    /\ irq_walked' = <<>>
    /\ irq_called' = <<>>
    /\ irq_start' = {h \in Handlers : irq_status[h]}
    /\ irq_raised' = {}
    /\ UNCHANGED <<m_irq_list, irq_status, irq_owed, notIrq>>

\* One turn of the loop of irq_poll: the next handler reads its status and,
\* if it is pending, acknowledges it and is called back.
PollStep ==
    /\ irq_cursor # Idle
    /\ irq_cursor # AtEnd
    /\ LET h == Head(irq_cursor.rest)
       IN  /\ irq_cursor' = Cursor(Tail(irq_cursor.rest))
           /\ irq_walked' = Append(irq_walked, h)
           /\ IF irq_pending(irq_status, h)
              THEN /\ irq_status' = irq_ack(irq_status, h)
                   /\ irq_called' = Append(irq_called, h)
                   /\ irq_owed' = irq_owed \ {h}
              ELSE UNCHANGED <<irq_status, irq_called, irq_owed>>
    /\ UNCHANGED <<m_irq_list, irq_enable, irq_start, irq_raised, notIrq>>

\* irq_poll is at the end of the list and returns; the line is armed again.
PollReturn ==
    /\ irq_cursor = AtEnd
    /\ irq_cursor' = Idle
    /\ irq_enable' = TRUE
    /\ UNCHANGED <<m_irq_list, irq_status, irq_owed, irq_walked, irq_called,
                   irq_start, irq_raised, notIrq>>

\* A walk that stays at the handler that unregistered itself.
poll_next_again(rest) == {Cursor(rest)}

\* Where irq_poll goes on after the callback of a handler that unregistered
\* itself in it. remove() has set the m_next of the handler to null: a loop
\* that took the next handler before the callback goes on with it, a loop
\* that follows m_next after the callback is at the end of the list.
poll_next(rest) == {Cursor(Tail(rest)), AtEnd}

\* One turn of the loop of irq_poll in which the handler, pending and called
\* back, calls unregister_irq on itself in its callback.
PollCancel ==
    /\ irq_cursor # Idle
    /\ irq_cursor # AtEnd
    /\ LET h == Head(irq_cursor.rest)
       IN  /\ irq_pending(irq_status, h)
           /\ irq_status' = irq_ack(irq_status, h)
           /\ irq_walked' = Append(irq_walked, h)
           /\ irq_called' = Append(irq_called, h)
           /\ irq_owed' = irq_owed \ {h}
           /\ m_irq_list' = unregister_irq(m_irq_list, h)
           /\ irq_cursor' \in poll_next(irq_cursor.rest)
    /\ UNCHANGED <<irq_enable, irq_start, irq_raised, notIrq>>

IrqNext ==
    \/ \E h \in Handlers : RegisterIrq(h)
    \/ \E h \in Handlers : UnregisterIrq(h)
    \/ \E h \in Handlers : RaiseIrq(h)
    \/ IrqEvent
    \/ PollStep
    \/ PollReturn

-----------------------------------------------------------------------------
\* net::Dispatch and net::ProtoEcho (satcat5/net_echo.h)

\* Two nodes of a network, each with one Dispatch, named by their address.
Nodes == {1, 2}
Peer(n) == 3 - n

\* Type values: the EtherTypes or ports by which a Dispatch tells frames apart.
NetTypes == {1, 2}

\* Payloads of one and of two bytes.
Payloads == {<<7>>, <<7, 8>>}

\* Protocols registered on one Dispatch, and request frames sent in all.
MaxProtos == 2
MaxInject == 1

\* A frame as a Dispatch sees it: the addresses of sender and receiver, one
\* for each layer below the Dispatch, the Type and the payload.
MkFrame(src, dst, type, payload) ==
    [src |-> src, dst |-> dst, type |-> type, payload |-> payload]

\* A host outside the two nodes, with its addresses at three layers, and the
\* addresses of node n at these layers for a frame of Type type: Ethernet,
\* IP, and the UDP port, which is the Type.
Outside == <<9, 5, 4000>>
UdpAddr(n, type) == <<n, n, type>>

\* A net::ProtoEcho: the Type it is registered for and its m_replytype.
MkEcho(id, type_req, type_ack) == [id |-> id, req |-> type_req, ack |-> type_ack]

\* The Protocol constructor registers it on the Dispatch: ListCore::add, which
\* puts it at the head of the list.
dispatch_add(list, proto) == <<proto>> \o list

\* A Dispatch that hands the frame to every Protocol of its Type.
deliver_all(list, type) == SelectSeq(list, LAMBDA p : p.req = type)

\* net::Dispatch::deliver: the Protocols whose frame_rcvd is called for a
\* frame of the given Type, which is the first in the list with that Type.
RECURSIVE deliver(_, _)
deliver(list, type) ==
    IF list = <<>> THEN <<>>
    ELSE IF Head(list).req = type THEN <<Head(list)>>
    ELSE deliver(Tail(list), type)

\* A reply that keeps the addresses of the frame received.
open_reply_noswap(frame, type, payload) ==
    MkFrame(frame.src, frame.dst, type, payload)

\* net::Dispatch::open_reply: a frame to the sender of the frame received,
\* with sender and receiver exchanged at each layer.
open_reply(frame, type, payload) ==
    MkFrame(frame.dst, frame.src, type, payload)

\* An echo that replies with the Type of the request.
frame_rcvd_reqtype(proto, frame) ==
    <<open_reply(frame, proto.req, frame.payload)>>

\* net::ProtoEcho::frame_rcvd: the frames transmitted, one reply of Type
\* m_replytype with the payload received.
frame_rcvd(proto, frame) ==
    <<open_reply(frame, proto.ack, frame.payload)>>

\* The frames that the Protocols called for a frame transmit, in order.
RECURSIVE Replies(_, _)
Replies(called, frame) ==
    IF called = <<>> THEN <<>>
    ELSE frame_rcvd(Head(called), frame) \o Replies(Tail(called), frame)

\* The frames among tx that are addressed to node n.
ToNode(tx, n) == SelectSeq(tx, LAMBDA f : f.dst[1] = n)

NoFrame == MkFrame(<<>>, <<>>, 0, <<>>)

NetInit ==
    /\ protos = [n \in Nodes |-> <<>>]
    /\ chan = [n \in Nodes |-> <<>>]
    /\ netlog = [node |-> 0, frame |-> NoFrame, list |-> <<>>, called |-> <<>>,
                 tx |-> <<>>]
    /\ injected = 0

\* Protocols registered so far.
Registered == Len(protos[1]) + Len(protos[2])

\* An echo Protocol is constructed on the Dispatch of node n.
RegisterEcho(n, type_req, type_ack) ==
    /\ Len(protos[n]) < MaxProtos
    /\ protos' = [protos EXCEPT
                    ![n] = dispatch_add(@, MkEcho(Registered + 1, type_req, type_ack))]
    /\ UNCHANGED <<chan, netlog, injected, notNet>>

\* A request frame is sent to node n, by the other node or from outside.
Inject(n, src, type, payload) ==
    /\ injected < MaxInject
    /\ injected' = injected + 1
    /\ chan' = [chan EXCEPT
                  ![n] = Append(@, MkFrame(src,
                                           IF Len(src) = 1 THEN <<n>>
                                           ELSE UdpAddr(n, type),
                                           type, payload))]
    /\ UNCHANGED <<protos, netlog, notNet>>

\* The Dispatch of node n receives the oldest frame on its way to n, calls
\* frame_rcvd of the Protocol it is for, and the replies are on their way.
Deliver(n) ==
    /\ chan[n] # <<>>
    /\ LET frame == Head(chan[n])
           called == deliver(protos[n], frame.type)
           tx == Replies(called, frame)
       IN  /\ netlog' = [node |-> n, frame |-> frame, list |-> protos[n],
                         called |-> called, tx |-> tx]
           /\ chan' = [m \in Nodes |->
                         (IF m = n THEN Tail(chan[m]) ELSE chan[m]) \o ToNode(tx, m)]
    /\ UNCHANGED <<protos, injected, notNet>>

\* Two nodes with at most one echo Protocol each, and requests from the other
\* node or from outside.
EchoNext ==
    \E n \in Nodes :
        \/ \E req, ack \in NetTypes : protos[n] = <<>> /\ RegisterEcho(n, req, ack)
        \/ \E src \in {<<Peer(n)>>, Outside}, type \in NetTypes, payload \in Payloads :
               Inject(n, src, type, payload)
        \/ Deliver(n)

\* One Dispatch with any Protocols, and the frames sent to it.
DispatchNext ==
    \/ \E req, ack \in NetTypes : RegisterEcho(1, req, ack)
    \/ \E src \in {<<Peer(1)>>, Outside}, type \in NetTypes, payload \in Payloads :
           Inject(1, src, type, payload)
    \/ Deliver(1)

\* Any Protocols on any Dispatch.
NetNext ==
    \E n \in Nodes :
        \/ \E req, ack \in NetTypes : RegisterEcho(n, req, ack)
        \/ \E src \in {<<Peer(n)>>, Outside}, type \in NetTypes, payload \in Payloads :
               Inject(n, src, type, payload)
        \/ Deliver(n)

-----------------------------------------------------------------------------
\* io::WritePcap and io::ReadPcap (hal_posix/file_pcap.h)

\* Size of the working buffer m_buff, scaled down from 1600 bytes.
SATCAT5_PCAP_BUFFSIZE == 4

\* Calls of write_finalize on one WritePcap.
MaxPackets == 2

LINKTYPE_ETHERNET == 1

\* The arguments of the calls of write_bytes.
TestChunks == {<<1>>, <<2, 3, 4, 5>>}

\* Magic numbers and block types, as the bytes of the u32 from the highest.
PCAP_MAGIC == <<161, 178, 195, 212>>
PCAPNG_SHB == <<10, 13, 13, 10>>
PCAPNG_BOM == <<26, 43, 60, 77>>
PCAPNG_IDB == <<0, 0, 0, 1>>
PCAPNG_SPB == <<0, 0, 0, 3>>
PCAPNG_EPB == <<0, 0, 0, 6>>

Reverse(b) == [i \in 1..Len(b) |-> b[Len(b) + 1 - i]]

\* FileWriter::write_u16 and write_u32: the bytes from the highest.
wr16(n) == <<(n \div 256) % 256, n % 256>>
wr32(n) == <<(n \div 16777216) % 256, (n \div 65536) % 256, (n \div 256) % 256, n % 256>>

\* The bytes of the file from position pos (the first is 0), nbytes of them, or
\* fewer when the file ends.
FileBytes(file, pos, nbytes) ==
    SubSeq(file, pos + 1, IF pos + nbytes <= Len(file) THEN pos + nbytes ELSE Len(file))

\* ReadPcap::file_rd16 and file_rd32: the number at position pos, in the
\* byte order of m_mode_be.
file_rd16(file, be, pos) ==
    LET b == FileBytes(file, pos, 2)
    IN  IF be THEN 256 * b[1] + b[2] ELSE 256 * b[2] + b[1]
file_rd32(file, be, pos) ==
    LET b == FileBytes(file, pos, 4)
        m == IF be THEN b ELSE Reverse(b)
    IN  16777216 * m[1] + 65536 * m[2] + 256 * m[3] + m[4]

\* Padding of nbytes bytes to the next multiple of four, with zeros.
Pad4(nbytes) == (4 - (nbytes % 4)) % 4
Zeros(n) == [i \in 1..n |-> 0]

\* One PCAPNG block: type, total length, body, total length again.
pcapng_block(type, body) ==
    type \o wr32(Len(body) + 12) \o body \o wr32(Len(body) + 12)

\* WritePcap::open: the start of the file. PCAP v2.4: magic, version 2.4,
\* time zone, accuracy, snap length, LinkType. PCAPNG: a section header block
\* (byte-order magic, version 1.0, section length unknown) and an interface
\* description block (LinkType, reserved, snap length).
file_header(ng, type) ==
    IF ng
    THEN pcapng_block(PCAPNG_SHB,
                      PCAPNG_BOM \o wr16(1) \o wr16(0) \o <<255, 255, 255, 255, 255, 255, 255, 255>>)
         \o pcapng_block(PCAPNG_IDB,
                         wr16(type) \o wr16(0) \o wr32(SATCAT5_PCAP_BUFFSIZE))
    ELSE PCAP_MAGIC \o wr16(2) \o wr16(4) \o wr32(0) \o wr32(0)
         \o wr32(SATCAT5_PCAP_BUFFSIZE) \o wr32(type)

\* An enhanced packet block without padding of the data.
packet_record_nopad(ng, now, data) ==
    IF ng
    THEN pcapng_block(PCAPNG_EPB,
                      wr32(0) \o wr32(0) \o wr32(1000 * now)
                      \o wr32(Len(data)) \o wr32(Len(data)) \o data)
    ELSE wr32(now \div 1000) \o wr32(1000 * (now % 1000))
         \o wr32(Len(data)) \o wr32(Len(data)) \o data

\* The record of one packet, at time now in milliseconds. PCAP: seconds,
\* microseconds, captured length, original length, data. PCAPNG: an enhanced
\* packet block of interface 0 with the time in microseconds, the two
\* lengths and the data padded to a multiple of four.
packet_record(ng, now, data) ==
    IF ng
    THEN pcapng_block(PCAPNG_EPB,
                      wr32(0) \o wr32(0) \o wr32(1000 * now)
                      \o wr32(Len(data)) \o wr32(Len(data))
                      \o data \o Zeros(Pad4(Len(data))))
    ELSE wr32(now \div 1000) \o wr32(1000 * (now % 1000))
         \o wr32(Len(data)) \o wr32(Len(data)) \o data

\* WritePcap before open(): nothing in the working buffer, no passthrough.
\* The field want is not of the program: all bytes its user wrote for the
\* packet, stored or not.
NewWriter ==
    [state |-> "new", ng |-> TRUE, data |-> <<>>, ovr |-> FALSE, pass |-> FALSE,
     want |-> <<>>]

\* ArrayWrite: bytes that fit in the rest of the buffer are stored, others
\* are dropped whole and the overflow is remembered.
write_bytes(wr, chunk) ==
    IF Len(wr.data) + Len(chunk) <= SATCAT5_PCAP_BUFFSIZE
    THEN [wr EXCEPT !.data = @ \o chunk, !.want = @ \o chunk]
    ELSE [wr EXCEPT !.ovr = TRUE, !.want = @ \o chunk]

\* ArrayWrite::write_abort: the buffer is empty again.
write_abort(wr) == [wr EXCEPT !.data = <<>>, !.ovr = FALSE, !.want = <<>>]

\* The passthrough Writeable: write_bytes and write_finalize of one packet.
sink_write(sink, data) == Append(sink, data)

\* A write_finalize that copies the buffer to the passthrough before it
\* looks at the overflow.
write_finalize_passfirst(wr, file, sink, now) ==
    LET ok == ~wr.ovr
    IN  [ok |-> ok,
         wr |-> write_abort(wr),
         file |-> IF ok THEN file \o packet_record(wr.ng, now, wr.data) ELSE file,
         sink |-> IF wr.pass THEN sink_write(sink, wr.data) ELSE sink]

\* A write_finalize that leaves the overflow for the next packet.
write_finalize_keepovr(wr, file, sink, now) ==
    LET ok == ~wr.ovr
    IN  [ok |-> ok,
         wr |-> [wr EXCEPT !.data = <<>>, !.want = <<>>],
         file |-> IF ok THEN file \o packet_record(wr.ng, now, wr.data) ELSE file,
         sink |-> IF ok /\ wr.pass THEN sink_write(sink, wr.data) ELSE sink]

\* WritePcap::write_finalize: ArrayWrite::write_finalize says whether the
\* packet fitted and empties the buffer; a packet that fitted is written to
\* the file as one record and copied from m_buff to m_pass if that is set.
write_finalize(wr, file, sink, now) ==
    LET ok == ~wr.ovr
    IN  [ok |-> ok,
         wr |-> write_abort(wr),
         file |-> IF ok THEN file \o packet_record(wr.ng, now, wr.data) ELSE file,
         sink |-> IF ok /\ wr.pass THEN sink_write(sink, wr.data) ELSE sink]

\* ReadPcap before open().
NewReader ==
    [open |-> FALSE, be |-> TRUE, ng |-> FALSE, pos |-> 0, has |-> FALSE,
     pkt |-> <<>>, got |-> <<>>]

\* ReadPcap::pcap_hdr and pcapng_shb: the format and byte order that the
\* magic number and the byte-order magic tell, and the position after the
\* header that was read. A file of neither format has no packets.
read_header(file) ==
    LET magic == FileBytes(file, 0, 4)
        bom == FileBytes(file, 8, 4)
    IN  IF magic = PCAP_MAGIC
        THEN [ok |-> TRUE, ng |-> FALSE, be |-> TRUE, pos |-> 24]
        ELSE IF magic = Reverse(PCAP_MAGIC)
        THEN [ok |-> TRUE, ng |-> FALSE, be |-> FALSE, pos |-> 24]
        ELSE IF magic = PCAPNG_SHB /\ bom = PCAPNG_BOM
        THEN [ok |-> TRUE, ng |-> TRUE, be |-> TRUE, pos |-> 0]
        ELSE IF magic = PCAPNG_SHB /\ bom = Reverse(PCAPNG_BOM)
        THEN [ok |-> TRUE, ng |-> TRUE, be |-> FALSE, pos |-> 0]
        ELSE [ok |-> FALSE, ng |-> FALSE, be |-> TRUE, pos |-> Len(file)]

\* No packet: the file ended.
NoPacket(pos) == [has |-> FALSE, pkt |-> <<>>, pos |-> pos]
GotPacket(pkt, pos) == [has |-> TRUE, pkt |-> pkt, pos |-> pos]

\* ReadPcap::pcap_dat: the record at pos, if the file holds all of it and
\* the packet fits in m_buff.
pcap_dat(file, be, pos) ==
    IF pos + 16 > Len(file) THEN NoPacket(Len(file))
    ELSE LET incl_len == file_rd32(file, be, pos + 8)
         IN  IF incl_len > SATCAT5_PCAP_BUFFSIZE \/ pos + 16 + incl_len > Len(file)
             THEN NoPacket(Len(file))
             ELSE GotPacket(FileBytes(file, pos + 16, incl_len), pos + 16 + incl_len)

\* ReadPcap::pcapng_blk, to the next packet: the block at pos is a simple
\* packet block (original length, data), an enhanced packet block (interface,
\* time, captured length, original length, data), or a block without a
\* packet (section header, interface description, any other), which is
\* passed over by its total length.
RECURSIVE pcapng_blk(_, _, _)
pcapng_blk(file, be, pos) ==
    IF pos + 12 > Len(file) THEN NoPacket(Len(file))
    ELSE LET type == FileBytes(file, pos, 4)
             order == IF type = PCAPNG_SHB
                      THEN FileBytes(file, pos + 8, 4) = PCAPNG_BOM
                      ELSE be
             total == file_rd32(file, order, pos + 4)
             code == IF order THEN type ELSE Reverse(type)
         IN  IF total < 12 \/ total % 4 # 0 \/ pos + total > Len(file)
             THEN NoPacket(Len(file))
             ELSE IF code = PCAPNG_SPB /\ total >= 16
             THEN LET orig == file_rd32(file, order, pos + 8)
                      nbytes == IF orig <= total - 16 THEN orig ELSE total - 16
                  IN  IF nbytes > SATCAT5_PCAP_BUFFSIZE
                      THEN pcapng_blk(file, order, pos + total)
                      ELSE GotPacket(FileBytes(file, pos + 12, nbytes), pos + total)
             ELSE IF code = PCAPNG_EPB /\ total >= 32
             THEN LET cap == file_rd32(file, order, pos + 20)
                  IN  IF cap > SATCAT5_PCAP_BUFFSIZE \/ cap > total - 32
                      THEN pcapng_blk(file, order, pos + total)
                      ELSE GotPacket(FileBytes(file, pos + 28, cap), pos + total)
             ELSE pcapng_blk(file, order, pos + total)

\* The next packet of the file for a reader at position pos.
next_packet(file, ng, be, pos) ==
    IF ng THEN pcapng_blk(file, be, pos) ELSE pcap_dat(file, be, pos)

\* The clock of the writer, in milliseconds: one more at each packet.
PcapNow == 999 + Len(pc_log)

PcapInit ==
    /\ pc_wr = NewWriter
    /\ pc_file = <<>>
    /\ pc_sink = <<>>
    /\ pc_log = <<>>
    /\ pc_rd = NewReader

\* WritePcap(pcapng) and open(filename) with the default LinkType.
PcapOpen(pcapng) ==
    /\ pc_wr.state = "new"
    /\ pc_wr' = [pc_wr EXCEPT !.state = "open", !.ng = pcapng]
    /\ pc_file' = file_header(pcapng, LINKTYPE_ETHERNET)
    /\ UNCHANGED <<pc_sink, pc_log, pc_rd, notPcap>>

\* set_passthrough(wr), with a Writeable or with null.
SetPassthrough(on) ==
    /\ pc_wr.state # "closed"
    /\ pc_wr.pass # on
    /\ pc_wr' = [pc_wr EXCEPT !.pass = on]
    /\ UNCHANGED <<pc_file, pc_sink, pc_log, pc_rd, notPcap>>

\* write_bytes(chunk) on the WritePcap, until its user wrote more than the
\* buffer holds.
WriteBytes(chunk) ==
    /\ pc_wr.state = "open"
    /\ Len(pc_log) < MaxPackets
    /\ Len(pc_wr.want) <= SATCAT5_PCAP_BUFFSIZE
    /\ pc_wr' = write_bytes(pc_wr, chunk)
    /\ UNCHANGED <<pc_file, pc_sink, pc_log, pc_rd, notPcap>>

\* write_abort() on the WritePcap.
WriteAbort ==
    /\ pc_wr.state = "open"
    /\ pc_wr.data # <<>> \/ pc_wr.ovr
    /\ pc_wr' = write_abort(pc_wr)
    /\ UNCHANGED <<pc_file, pc_sink, pc_log, pc_rd, notPcap>>

\* write_finalize() on the WritePcap, for a packet of one byte or more.
WriteFinalize ==
    /\ pc_wr.state = "open"
    /\ Len(pc_log) < MaxPackets
    /\ pc_wr.want # <<>>
    /\ LET r == write_finalize(pc_wr, pc_file, pc_sink, PcapNow)
       IN  /\ pc_wr' = r.wr
           /\ pc_file' = r.file
           /\ pc_sink' = r.sink
           /\ pc_log' = Append(pc_log, [ok |-> r.ok, pkt |-> pc_wr.want,
                                        pass |-> pc_wr.pass])
    /\ UNCHANGED <<pc_rd, notPcap>>

\* close() on the WritePcap: the file is complete.
PcapClose ==
    /\ pc_wr.state = "open"
    /\ pc_wr.data = <<>> /\ ~pc_wr.ovr
    /\ pc_wr' = [pc_wr EXCEPT !.state = "closed"]
    /\ UNCHANGED <<pc_file, pc_sink, pc_log, pc_rd, notPcap>>

\* The reader after it went on from position pos.
Advance(rd, file, pos) ==
    LET nx == next_packet(file, rd.ng, rd.be, pos)
    IN  [rd EXCEPT !.pos = nx.pos, !.has = nx.has, !.pkt = nx.pkt]

\* ReadPcap::open on the file written: the header, then the first packet.
ReadOpen ==
    /\ pc_wr.state = "closed"
    /\ ~pc_rd.open
    /\ LET hdr == read_header(pc_file)
       IN  pc_rd' = Advance([pc_rd EXCEPT !.open = TRUE, !.ng = hdr.ng, !.be = hdr.be],
                            pc_file, hdr.pos)
    /\ UNCHANGED <<pc_wr, pc_file, pc_sink, pc_log, notPcap>>

\* The user of the ReadPcap has read the bytes of the packet;
\* ReadPcap::read_finalize goes on to the next packet.
ReadFinalize ==
    /\ pc_rd.open
    /\ pc_rd.has
    /\ pc_rd' = Advance([pc_rd EXCEPT !.got = Append(@, pc_rd.pkt)], pc_file, pc_rd.pos)
    /\ UNCHANGED <<pc_wr, pc_file, pc_sink, pc_log, notPcap>>

PcapNext ==
    \/ \E pcapng \in BOOLEAN : PcapOpen(pcapng)
    \/ \E on \in BOOLEAN : SetPassthrough(on)
    \/ \E chunk \in TestChunks : WriteBytes(chunk)
    \/ WriteAbort
    \/ WriteFinalize
    \/ PcapClose
    \/ ReadOpen
    \/ ReadFinalize

-----------------------------------------------------------------------------
\* Properties of the list functions

\* C1: for every null-terminated list l and every item x not on l, a call of
\* push_front, add or push_back with x makes len(l) exactly one more than it
\* was and makes contains(l, x) true.
C1_PushAddsOne ==
    [][\A l \in Lists, x \in Items :
        ( /\ lop' \in {"push_front", "add", "push_back"}
          /\ PushFront(l, x) \/ Add(l, x) \/ PushBack(l, x)
          /\ Acyclic(MemNow, l)
          /\ ~OnList(MemNow, l, x) )
        => /\ len(MemNow', l) = Ret(len(MemNow, l).ret + 1)
           /\ contains(MemNow', l, x) = Ret(TRUE)]_vars

\* A push_back onto a list that already held two items has returned.
C1_Witness ==
    /\ lop = "push_back"
    /\ len(MemNow, "A") = Ret(3)
    /\ contains(MemNow, "A", 2) = Ret(TRUE)

\* C2: for every null-terminated list l and every item x not on l, push_front
\* or push_back of x followed by remove of x leaves l with exactly the items it
\* had before the push, in the same order, and leaves x.m_next null.
C2_PushThenRemove ==
    [][\A l \in Lists, x \in Items :
        ( /\ PushFront(l, x) \/ PushBack(l, x)
          /\ Acyclic(MemNow, l)
          /\ ~OnList(MemNow, l, x) )
        => LET after == remove(MemNow', l, x)
           IN  /\ after # NoReturn
               /\ ItemSeq(after, l) = ItemSeq(MemNow, l)
               /\ after.next[x] = Null]_vars

\* A push_back of item 3 onto the list <<2, 1>> has returned, and the remove of
\* item 3 that the property applies to this state gives back <<2, 1>>.
C2_Witness ==
    /\ lop = "push_back"
    /\ ItemSeq(MemNow, "A") = Ret(<<2, 1, 3>>)
    /\ ItemSeq(remove(MemNow, "A", 3), "A") = Ret(<<2, 1>>)

\* The sequence has no item twice.
NoRepeat(q) == \A i, j \in DOMAIN q : q[i] = q[j] => i = j

\* C17: add_safe adds the item when it is not on the list and leaves the
\* list as it is when it is; a second add_safe of the item changes nothing;
\* and a list that started empty has, after calls of add_safe, no item twice
\* and no loop.
C17_AddSafe ==
    LET before == ItemSeq(MemNow, "A")
    IN  /\ before # NoReturn
        /\ NoRepeat(before.ret)
        /\ has_loop(MemNow, m_head["A"]) = Ret(FALSE)
        /\ lop = "add_safe" => OnList(MemNow, "A", lret.par)
        /\ \A x \in Items :
               LET once == add_safe(MemNow, "A", x)
               IN  /\ once # NoReturn
                   /\ ItemSeq(once, "A") =
                          IF OnList(MemNow, "A", x) THEN before
                          ELSE Ret(<<x>> \o before.ret)
                   /\ OnList(MemNow, "A", x) => once = MemNow
                   /\ add_safe(once, "A", x) = once

\* add_safe of item 2 has returned on the list <<3, 2, 1>>, with nothing
\* added.
C17_Witness ==
    /\ lop = "add_safe" /\ lret.par = 2
    /\ ItemSeq(MemNow, "A") = Ret(<<3, 2, 1>>)
    /\ add_safe(MemNow, "A", 2) = MemNow

\* C18: has_loop returns for every chain of items, with true when the chain
\* from the head comes back to an item of it and false when it ends in a
\* null pointer, as it does for the empty list.
C18_HasLoop ==
    /\ has_loop(MemNow, m_head["A"]) = Ret(~Acyclic(MemNow, "A"))
    /\ m_head["A"] = Null => has_loop(MemNow, m_head["A"]) = Ret(FALSE)
    /\ lop = "has_loop" => lret.val = ~Acyclic(MemNow, "A")

\* has_loop has returned true for the chain 3, 1, 2, 1, ...: a loop of two
\* items after one item.
C18_Witness ==
    /\ lop = "has_loop"
    /\ lret.val = TRUE
    /\ m_head["A"] = 3 /\ m_next[3] = 1 /\ m_next[1] = 2 /\ m_next[2] = 1

\* C19: get_index(list, idx) on a list that ends in a null pointer returns
\* the item at position idx, counted from zero, when idx is less than the
\* length, and null otherwise, as for every idx on the empty list.
C19_GetIndex ==
    (lop = "get_index" /\ Acyclic(MemNow, "A")) =>
        LET q == ItemSeq(MemNow, "A").ret
        IN  lret.val = IF lret.par < Len(q) THEN q[lret.par + 1] ELSE Null

\* get_index(list, 2) has returned the last item of the list <<3, 2, 1>>.
C19_Witness ==
    /\ lop = "get_index"
    /\ ItemSeq(MemNow, "A") = Ret(<<3, 2, 1>>)
    /\ lret = [par |-> 2, val |-> 1]

\* The items of the sequence q that are in the set keep.
Only(q, keep) == SelectSeq(q, LAMBDA x : x \in keep)

\* C20: add_list(list1, list2) on two lists that end in a null pointer and
\* share no item returns, leaves list2 empty, and leaves on list1 the items
\* of both, each once, those of list1 in the order they had.
C20_AddList ==
    [][\A l1, l2 \in Lists :
        ( /\ l1 # l2
          /\ Acyclic(MemNow, l1) /\ Acyclic(MemNow, l2)
          /\ Range(ItemSeq(MemNow, l1).ret) \cap Range(ItemSeq(MemNow, l2).ret) = {}
          /\ lop' = "add_list"
          /\ AddList(l1, l2) )
        => LET q1 == ItemSeq(MemNow, l1).ret
               q2 == ItemSeq(MemNow, l2).ret
               after == ItemSeq(MemNow', l1)
           IN  /\ add_list(MemNow, l1, l2, Fuel) # NoReturn
               /\ m_head'[l2] = Null
               /\ after # NoReturn
               /\ NoRepeat(after.ret)
               /\ Range(after.ret) = Range(q1) \cup Range(q2)
               /\ Len(after.ret) = Len(q1) + Len(q2)
               /\ Only(after.ret, Range(q1)) = q1]_vars

\* add_list has moved the two items of list B onto list A, which had one.
C20_Witness ==
    /\ lop = "add_list"
    /\ m_head["B"] = Null
    /\ ItemSeq(MemNow, "A") = Ret(<<3, 2, 1>>)
    /\ m_next[1] = Null

\* The position of item x in the sequence q, counted from zero, and the
\* length of q when x is not in it.
Position(q, x) ==
    IF \E i \in DOMAIN q : q[i] = x
    THEN (CHOOSE i \in DOMAIN q : q[i] = x /\ \A j \in 1..(i - 1) : q[j] # x) - 1
    ELSE Len(q)

Min(a, b) == IF a <= b THEN a ELSE b

\* C21, as stated: a call other than contains, len and push_back follows a
\* number of links that does not grow with the list; for remove, no more
\* than the one link it follows on a list of one item.
C21_ConstantTraversals ==
    [][\A x \in Items :
        Remove("A", x) => FindPtrSteps(MemNow, HeadLink("A"), x, Fuel) <= 1]_vars

\* C21, amended: on a list that ends in null, remove of the item at position
\* k follows k links, and as many links as the list has items when the item
\* is not on it; add_safe follows as many; get_index(idx) follows idx links
\* or as many as the list has items; has_loop advances its slow pointer
\* once for every two items after the first.
C21_LinearTraversals ==
    [][LET q == ItemSeq(MemNow, "A").ret
       IN  /\ Acyclic(MemNow, "A")
           /\ \A x \in Items :
                  /\ Remove("A", x) =>
                         FindPtrSteps(MemNow, HeadLink("A"), x, Fuel) = Position(q, x)
                  /\ AddSafe("A", x) =>
                         ContainsSteps(MemNow, m_head["A"], x, Fuel) = Position(q, x)
           /\ \A idx \in 0..(NItems + 1) :
                  GetIndex("A", idx) =>
                      GetIndexSteps(MemNow, m_head["A"], idx) = Min(idx, Len(q))
           /\ (HasLoop("A") /\ m_head["A"] # Null) =>
                  HasLoopSteps(MemNow, m_head["A"], m_next[m_head["A"]], HasLoopFuel)
                      = (Len(q) - 1) \div 2]_vars

\* remove of item 1 has returned and left the list <<3, 2>>: item 1 was the
\* last of three or not on the list, and find_ptr followed two links.
C21_Witness ==
    /\ lop = "remove" /\ lret.par = 1
    /\ ItemSeq(MemNow, "A") = Ret(<<3, 2>>)
    /\ FindPtrSteps(MemNow, HeadLink("A"), 1, Fuel) = 2

\* C27: on a list that ends in null, push_back of an item x that is not on
\* it leaves the items it had, in their order, followed by x, so that
\* get_index at the last position returns x, and makes x the head when the
\* list was empty; push_front of such an x leaves x, as the head, followed by
\* the items the list had, in their order.
C27_PushPosition ==
    [][\A x \in Items :
        LET q == ItemSeq(MemNow, "A").ret
        IN  (Acyclic(MemNow, "A") /\ ~OnList(MemNow, "A", x)) =>
                /\ PushBack("A", x) =>
                       /\ ItemSeq(MemNow', "A") = Ret(q \o <<x>>)
                       /\ get_index(MemNow', m_head'["A"], Len(q)) = x
                       /\ q = <<>> => m_head'["A"] = x
                /\ PushFront("A", x) =>
                       /\ ItemSeq(MemNow', "A") = Ret(<<x>> \o q)
                       /\ m_head'["A"] = x]_vars

\* push_back of item 2 has returned on the list <<3, 1>>, and get_index at
\* the last position returns item 2.
C27_Witness ==
    /\ lop = "push_back" /\ lret.par = 2
    /\ ItemSeq(MemNow, "A") = Ret(<<3, 1, 2>>)
    /\ get_index(MemNow, m_head["A"], 2) = 2

\* C28: pop_front on a list that is not empty returns its first item and
\* sets the m_next of that item to null; when the list ends in null it then
\* holds the remaining items in their order, one fewer than before;
\* pop_front on the empty list returns null and leaves the list empty.
C28_PopFront ==
    [][PopFront("A") =>
        /\ m_head["A"] # Null =>
               /\ lret'.val = m_head["A"]
               /\ m_next'[m_head["A"]] = Null
               /\ Acyclic(MemNow, "A") =>
                      LET q == ItemSeq(MemNow, "A").ret
                      IN  /\ lret'.val = q[1]
                          /\ ItemSeq(MemNow', "A") = Ret(Tail(q))
                          /\ len(MemNow', "A") = Ret(Len(q) - 1)
        /\ m_head["A"] = Null =>
               /\ lret'.val = Null
               /\ m_head'["A"] = Null
               /\ MemNow' = MemNow]_vars

\* pop_front has returned item 3, whose m_next is null, and left the list
\* <<1, 2>>.
C28_Witness ==
    /\ lop = "pop_front" /\ lret.val = 3
    /\ ItemSeq(MemNow, "A") = Ret(<<1, 2>>)
    /\ m_next[3] = Null

\* C29: on a list that ends in null, find_ptr(&list, x) returns the address
\* of the link whose value is x, the head pointer or the m_next of the item
\* before x, when x is on the list, and null when x is an item that is not
\* on it; find_ptr(&list, null) returns the link that holds the terminating
\* null, the head pointer of the empty list or the m_next of the last item,
\* and never null.
C29_FindPtr ==
    (lop = "find_ptr" /\ Acyclic(MemNow, "A")) =>
        LET x == lret.par
            q == ItemSeq(MemNow, "A").ret
            k == Position(q, x)
            link == IF k = 0 THEN HeadLink("A") ELSE NextLink(q[k])
        IN  /\ (x # Null /\ OnList(MemNow, "A", x)) =>
                   /\ lret.val = link
                   /\ Deref(MemNow, lret.val) = x
            /\ (x # Null /\ ~OnList(MemNow, "A", x)) => lret.val = NullLink
            /\ x = Null =>
                   /\ lret.val # NullLink
                   /\ lret.val = link
                   /\ Deref(MemNow, lret.val) = Null
                   /\ push_back(MemNow, "A", 1) =
                          SetNext(Store(MemNow, lret.val, 1), 1, Null)

\* find_ptr has returned the address of the m_next of item 2, which holds
\* item 1, on the list <<3, 2, 1>>.
C29_Witness ==
    /\ lop = "find_ptr" /\ lret.par = 1
    /\ ItemSeq(MemNow, "A") = Ret(<<3, 2, 1>>)
    /\ lret.val = NextLink(2)

\* find_ptr for the null pointer has returned the address of the m_next of
\* the last item of the list <<3, 2, 1>>.
C29_AtEnd ==
    /\ lop = "find_ptr" /\ lret.par = Null
    /\ ItemSeq(MemNow, "A") = Ret(<<3, 2, 1>>)
    /\ lret.val = NextLink(1)

\* C30: adding an item twice creates a loop: on a list that ends in null,
\* push_front or add of an item that is on the list already, at the head or
\* elsewhere, leaves a chain that comes back to the item, and has_loop
\* returns true for it.
C30_AddTwiceLoops ==
    [][\A x \in Items :
        ( /\ PushFront("A", x) \/ Add("A", x)
          /\ Acyclic(MemNow, "A")
          /\ OnList(MemNow, "A", x) )
        => /\ has_loop(MemNow', m_head'["A"]) = Ret(TRUE)
           /\ ~Acyclic(MemNow', "A")
           /\ m_head'["A"] = x]_vars

\* push_front of item 1, the last of the list <<3, 2, 1>>, has returned: the
\* chain is 1, 3, 2, 1, ... and has_loop returns true.
C30_Witness ==
    /\ lop = "push_front" /\ lret.par = 1
    /\ m_head["A"] = 1 /\ m_next[1] = 3 /\ m_next[3] = 2 /\ m_next[2] = 1
    /\ has_loop(MemNow, m_head["A"]) = Ret(TRUE)

\* push_front of item 2, the head and only item of the list, has returned:
\* item 2 is its own successor.
C30_SelfLoop ==
    /\ lop = "push_front" /\ lret.par = 2
    /\ m_head["A"] = 2 /\ m_next[2] = 2
    /\ has_loop(MemNow, m_head["A"]) = Ret(TRUE)

\* The items on list A, when it ends in null.
Members == Range(ItemSeq(MemNow, "A").ret)

\* C31: a list that starts empty and is used as the header demands stays
\* well formed: after any sequence of add_safe, pop_front and remove, and of
\* push_front, push_back and insert_after of items that are not on the list
\* (insert_after behind an item that is), the list ends in null and has_loop
\* returns false, no item is on it twice, and len is the number of items
\* added and not yet removed: each call that adds an item puts that one item
\* on the list, each call that removes one takes that one off; so len,
\* contains and find_ptr return.
C31_WellFormed ==
    /\ [](/\ Acyclic(MemNow, "A")
          /\ has_loop(MemNow, m_head["A"]) = Ret(FALSE)
          /\ NoRepeat(ItemSeq(MemNow, "A").ret)
          /\ len(MemNow, "A") = Ret(Cardinality(Members))
          /\ \A x \in Ptrs : find_ptr(MemNow, "A", x) # NoReturn
          /\ \A x \in Items : contains(MemNow, "A", x) # NoReturn)
    /\ [][/\ lop' \in {"push_front", "push_back", "add_safe", "insert_after"} =>
              Members' = Members \cup {lret'.par}
          /\ lop' = "remove" => Members' = Members \ {lret'.par}
          /\ lop' = "pop_front" => Members' = Members \ {lret'.val}
          /\ lop' = "pop_front" => (lret'.val = Null <=> Members = {})
          /\ lop' \in {"get_index", "has_loop", "find_ptr"} =>
              Members' = Members]_vars

\* insert_after has put item 2 behind item 3, the head of the list <<3, 1>>.
C31_Witness ==
    /\ lop = "insert_after" /\ lret = [par |-> 2, val |-> 3]
    /\ ItemSeq(MemNow, "A") = Ret(<<3, 2, 1>>)
    /\ len(MemNow, "A") = Ret(3)

\* No item is on two lists.
AtMostOneList ==
    \A l1, l2 \in Lists :
        l1 # l2 => Chain(MemNow, l1) \cap Chain(MemNow, l2) = {}

\* What the calls on list l leave, each made on the memory as it is with an
\* item that is on l or on no list, insert_after behind an item of l; without
\* the calls that do not return.
CallsOn(l) ==
    ( UNION { { push_front(MemNow, l, item), push_back(MemNow, l, item),
                add_safe(MemNow, l, item), remove(MemNow, l, item) }
                \cup { insert_after(MemNow, where, item) :
                           where \in Chain(MemNow, l) }
              : item \in NotElsewhere(l) }
      \cup { pop_front(MemNow, l) } ) \ {NoReturn}

\* C32: while no item is on two lists, a call of push_front, push_back,
\* add_safe, insert_after, pop_front or remove on a list, with an item that
\* is on that list or on no list, leaves every other list as it is: its
\* head, the m_next of each of its items and so its sequence of items; and
\* no item is on two lists, before or after.
C32_Frame ==
    /\ AtMostOneList
    /\ \A l \in Lists : \A after \in CallsOn(l) : \A b \in Lists \ {l} :
           /\ after.head[b] = m_head[b]
           /\ \A i \in Chain(MemNow, b) : after.next[i] = m_next[i]
           /\ ItemSeq(after, b) = ItemSeq(MemNow, b)
           /\ Chain(after, l) \cap Chain(after, b) = {}

\* remove has taken item 2 off list A, which held item 2 alone, while list B
\* was <<3, 1>> as it still is.
C32_Witness ==
    /\ lop = "remove" /\ lret.par = 2
    /\ ItemSeq(MemNow, "B") = Ret(<<3, 1>>)
    /\ m_head["A"] = Null
    /\ m_next[2] = Null
    /\ remove(push_front(MemNow, "A", 2), "A", 2) = MemNow

\* push_front of item 2, the head of list A, has left item 2 its own
\* successor, and list B is <<3, 1>>.
C32_LoopBeside ==
    /\ lop = "push_front" /\ lret.par = 2
    /\ m_head["A"] = 2 /\ m_next[2] = 2
    /\ ItemSeq(MemNow, "B") = Ret(<<3, 1>>)

\* Every item that is on no list has a null m_next.
DetachedNull == \A item \in Items : Free(item) => m_next[item] = Null

\* remove of an item from a list it is not on, while it is on another.
RemoveFromWrongList ==
    \E l \in Lists, x \in Items :
        Remove(l, x) /\ ~OnList(MemNow, l, x) /\ ~Free(x)

\* What remove and pop_front do to the list and to the item they detach.
RemoveDetaches ==
    /\ \A l \in Lists, x \in Items :
           Remove(l, x) =>
               /\ m_next'[x] = Null
               /\ ~OnList(MemNow, l, x) =>
                      /\ ItemSeq(MemNow', l) = ItemSeq(MemNow, l)
                      /\ len(MemNow', l) = len(MemNow, l)
                      /\ m_head'[l] = m_head[l]
    /\ \A l \in Lists :
           (PopFront(l) /\ m_head[l] # Null) =>
               /\ lret'.val = m_head[l]
               /\ m_next'[m_head[l]] = Null

\* C33, as stated: remove of an item that is not on the list leaves the
\* items and the length of the list as they are; after every remove and
\* pop_front the m_next of the detached item is null; so every item that is
\* on no list has a null m_next.
C33_DetachedNull ==
    /\ [][RemoveDetaches]_vars
    /\ []DetachedNull

\* C33, amended: remove of an item that is not on the list leaves the items
\* and the length of the list as they are; after every remove and pop_front
\* the m_next of the detached item is null; and every call other than a
\* remove of an item from a list it is not on while it is on another keeps
\* the m_next of every item that is on no list null.
C33_RemoveAbsent ==
    /\ [][RemoveDetaches]_vars
    /\ [][(DetachedNull /\ ~RemoveFromWrongList) => DetachedNull']_vars

\* remove(A, 3) has returned while item 3 was the head of list B, which was
\* <<3, 2, 1>>: list B is <<3>>, list A is empty as before, and item 2, on
\* no list, still points to item 1.
C33_Witness ==
    /\ lop = "remove" /\ lret.par = 3
    /\ m_head["A"] = Null
    /\ ItemSeq(MemNow, "B") = Ret(<<3>>)
    /\ Free(2) /\ m_next[2] = 1

-----------------------------------------------------------------------------
\* Properties of ptp::Time

\* C3: every Time is in canonical form, 0 <= m_subns < SUBNS_PER_SEC, after
\* each constructor and after every sequence of +=, -=, unary minus, abs, *=
\* and /= on it; and the Time constructed from the s64 n, negative or not, has
\* m_secs * SUBNS_PER_SEC + m_subns = n.
C3_Canonical ==
    /\ Canonical(tm)
    /\ tcall.op = "Time_subns" => TotalSubns(tm) = tcall.arg

\* Two operators after the construction, the last one a division, have left a
\* negative time that is not a whole number of seconds.
C3_Witness ==
    /\ tcount = 2
    /\ tcall.op = "operator_div"
    /\ BIsNeg(tm.m_secs)
    /\ tm.m_subns # BZero

\* C4: for every Time a and b where a + b does not overflow the seconds,
\* (a + b) - b is a, member for member.
C4_PlusMinus ==
    [][\A b \in TestTimes :
        PlusAssign(b) => operator_minus(tm', b) = tm]_vars

\* A negative time has been added to a negative time, which borrowed from the
\* seconds.
C4_Witness ==
    /\ tcall.op = "operator_plus"
    /\ tcall.arg = Time_subns(BInt[-1])
    /\ tm = MkTime(BInt[-1], BSub[BProd[SUBNS_PER_SEC], BInt[2]])

\* C24: for every canonical Time, field_subns() is 65536 * field_nsec() +
\* correction(), field_nsec() is less than 1,000,000,000 and correction() is
\* less than 65536.
C24_FieldSubns ==
    Canonical(tm) =>
        /\ field_subns(tm) =
               BAdd[BMul[field_nsec(tm), SUBNS_PER_NSEC], correction(tm)]
        /\ ~BIsNeg(field_nsec(tm))
        /\ BLess(field_nsec(tm), BProd[NSEC_PER_SEC])
        /\ ~BIsNeg(correction(tm))
        /\ BLess(correction(tm), BProd[SUBNS_PER_NSEC])

\* A negative time that is not a whole number of nanoseconds: its correction()
\* is in the upper half of a nanosecond and its field_nsec() is the last
\* nanosecond of a second.
C24_Witness ==
    /\ Canonical(tm)
    /\ BIsNeg(field_secs(tm))
    /\ field_nsec(tm) = BInt[999999999]
    /\ correction(tm) = BInt[65535]
    /\ field_subns(tm) = BSub[BProd[SUBNS_PER_SEC], BInt[1]]

\* Rounding tm up crosses a second boundary.
CrossesSecond ==
    /\ field_nsec(tm) = BInt[999999999]
    /\ BLeq(BInt[32768], correction(tm))

\* C25: round_secs() and round_nsec() are the seconds and nanoseconds of the
\* time rounded to the nearest nanosecond, half a nanosecond being added
\* before the fields are read: round_nsec() is less than 1,000,000,000; when
\* rounding up crosses a second boundary round_secs() is field_secs() + 1
\* and round_nsec() is 0; otherwise round_secs() is field_secs().
C25_RoundNearest ==
    LET sum == operator_plus(tm, HalfNsec)
        rs == round_secs(tm)
        rn == round_nsec(tm)
    IN  (Canonical(tm) /\ InRange(add_fields(tm, HalfNsec)) /\ InRange(sum)) =>
            /\ ~BIsNeg(rn)
            /\ BLess(rn, BProd[NSEC_PER_SEC])
            /\ BAdd[BMul[rs, NSEC_PER_SEC], rn] =
                   divide[BAdd[TotalSubns(tm), BInt[32768]], SUBNS_PER_NSEC]
            /\ CrossesSecond =>
                   /\ rs = BAdd[field_secs(tm), BInt[1]]
                   /\ rn = BZero
            /\ ~CrossesSecond => rs = field_secs(tm)

\* A time in the last half nanosecond of a second: rounding carries into the
\* seconds.
C25_Witness ==
    /\ Canonical(tm)
    /\ CrossesSecond
    /\ InRange(operator_plus(tm, HalfNsec))
    /\ round_secs(tm) = BAdd[field_secs(tm), BInt[1]]
    /\ round_nsec(tm) = BZero

\* A time in the last nanosecond of a second and in its lower half.
C25_Boundary ==
    /\ field_nsec(tm) = BInt[999999999]
    /\ BLess(correction(tm), BInt[32768])

\* C26: unary minus is an exact involution that re-canonicalizes: for every
\* Time t whose negation does not overflow, -(-t) is t and t + (-t) is
\* TIME_ZERO; the negation of a canonical time with m_subns other than zero
\* has the seconds -(m_secs) - 1 and the subns SUBNS_PER_SEC - m_subns, never
\* a negative subns; with m_subns zero only the seconds change sign.
C26_NegInvolution ==
    [][Negate =>
        /\ operator_neg(tm') = tm
        /\ operator_plus(tm, tm') = TIME_ZERO
        /\ Canonical(tm')
        /\ tm.m_subns # BZero =>
               /\ tm'.m_secs = BSub[BNeg[tm.m_secs], BInt[1]]
               /\ tm'.m_subns = BSub[BProd[SUBNS_PER_SEC], tm.m_subns]
        /\ tm.m_subns = BZero =>
               /\ tm'.m_secs = BNeg[tm.m_secs]
               /\ tm'.m_subns = BZero]_vars

\* Time(98305), one nanosecond and a half and a bit, has been negated: the
\* seconds are -1 and the subns the complement.
C26_Witness ==
    /\ tcall.op = "operator_neg"
    /\ tcount = 1
    /\ tm.m_secs = BInt[-1]
    /\ tm.m_subns = BSub[BProd[SUBNS_PER_SEC], BInt[98305]]

\* The seconds of t fit the 48-bit field of a PTP timestamp.
InU48(t) == ~BIsNeg(field_secs(t)) /\ BLess(field_secs(t), BPow2[48])

\* C5: for every Time with seconds in [0, 2^48), the Time that the receiver
\* gets from the ten bytes of write_to and the eight bytes of correction(), by
\* read_from and adding the correction, has the same field_secs, field_nsec
\* and correction.
C5_WireRoundTrip ==
    (tcall.op = "read_from" /\ InU48(tm)) =>
        /\ field_secs(tret.ret) = field_secs(tm)
        /\ field_nsec(tret.ret) = field_nsec(tm)
        /\ correction(tret.ret) = correction(tm)

\* The time 123456 s, 789000000 ns and 32768 subns has made the round trip.
C5_Witness ==
    /\ tcall.op = "read_from"
    /\ field_secs(tret.ret) = BInt[123456]
    /\ field_nsec(tret.ret) = BInt[789000000]
    /\ correction(tret.ret) = BInt[32768]
    /\ tm = tret.ret

-----------------------------------------------------------------------------
\* Properties of the ConfigBus

\* A call of get_regaddr with dev in [0, 256) and reg in [0, 1024).
RegaddrInRange(c) ==
    /\ c.dev \in 0..(MAX_DEVICES - 1)
    /\ c.reg \in 0..(REGS_PER_DEVICE - 1)

\* C7: get_regaddr(dev, reg) is 1024 * dev + reg; MAX_TOTAL_REGS is 262144;
\* for dev in [0, 256) and reg in [0, 1024) the address is below
\* MAX_TOTAL_REGS, and two such calls with different (dev, reg) give different
\* addresses.
C7_Regaddr ==
    /\ MAX_TOTAL_REGS = 262144
    /\ \A i \in DOMAIN ra :
        /\ ra[i].addr = 1024 * ra[i].dev + ra[i].reg
        /\ RegaddrInRange(ra[i]) => ra[i].addr < MAX_TOTAL_REGS
    /\ \A i, j \in DOMAIN ra :
        ( /\ RegaddrInRange(ra[i])
          /\ RegaddrInRange(ra[j])
          /\ <<ra[i].dev, ra[i].reg>> # <<ra[j].dev, ra[j].reg>> )
        => ra[i].addr # ra[j].addr

\* The last register of the last device and the first register of that device
\* have been converted: the highest address, and one 1023 below it.
C7_Witness ==
    /\ Len(ra) = 2
    /\ ra[1] = [dev |-> 255, reg |-> 1023, addr |-> 262143]
    /\ ra[2] = [dev |-> 255, reg |-> 0, addr |-> 261120]

\* C8: the accesses of a bulk operation on the memory-mapped bus are those of
\* the loop of single reads or writes.  read_array and write_array access
\* regaddr, regaddr + 1, ..., regaddr + count - 1, each once and in this order,
\* and read_repeat and write_repeat access regaddr count times; the i-th value
\* read is the i-th result and the i-th value of the data is the i-th written.
C8_BulkIsLoop ==
    LET n == cfgcall.count
        base == cfgcall.regaddr
        Access(op, addr, val) == [op |-> op, addr |-> addr, val |-> val]
    IN  /\ cfgcall.op = "read_array" =>
            /\ buslog = [i \in 1..n |-> Access("read", base + i - 1, regs[base + i - 1])]
            /\ cfgret.result = [i \in 1..n |-> regs[base + i - 1]]
        /\ cfgcall.op = "read_repeat" =>
            /\ buslog = [i \in 1..n |-> Access("read", base, regs[base])]
            /\ cfgret.result = [i \in 1..n |-> regs[base]]
        /\ cfgcall.op = "write_array" =>
            /\ buslog = [i \in 1..n |-> Access("write", base + i - 1, cfgcall.data[i])]
            /\ \A i \in 1..n : regs[base + i - 1] = cfgcall.data[i]
        /\ cfgcall.op = "write_repeat" =>
            /\ buslog = [i \in 1..n |-> Access("write", base, cfgcall.data[i])]
            /\ n > 0 => regs[base] = cfgcall.data[n]
        /\ cfgret.status = IOSTATUS_OK

\* read_array of two registers with different values has returned them in the
\* order of their addresses.
C8_Witness ==
    /\ cfgcall.op = "read_array"
    /\ cfgcall.regaddr = 1
    /\ cfgcall.count = 2
    /\ cfgret.result = <<1, 0>>
    /\ Len(buslog) = 2

\* C9: when irq_poll has reached the end of the list it has visited every
\* registered handler, in the order of the list; it has called back exactly
\* once every registered handler whose status was pending when it began; and
\* every handler it has called back is registered, was called once, and had
\* its status pending when the poll began or raised during the poll.
C9_PollCallsPending ==
    irq_cursor = AtEnd =>
        /\ irq_walked = m_irq_list
        /\ \A h \in Range(m_irq_list) \cap irq_start : Count(irq_called, h) = 1
        /\ \A h \in Handlers :
            Count(irq_called, h) > 0 =>
                /\ Count(irq_called, h) = 1
                /\ h \in Range(m_irq_list)
                /\ h \in irq_start \cup irq_raised

\* A poll over two registered handlers has ended: the one that was pending has
\* been called back and the other has not.
C9_Witness ==
    /\ irq_cursor = AtEnd
    /\ m_irq_list = <<2, 1>>
    /\ irq_start = {1}
    /\ irq_called = <<1>>
    /\ irq_raised = {}

\* C10: when the peripheral of a handler that irq_poll has called back raises
\* its status again before irq_poll returns, the handler is called back again
\* later, unless it is unregistered first; and the shared line is armed only
\* when irq_poll has visited the whole list.
C10_NoLostInterrupt ==
    /\ \A h \in Handlers :
        [](( /\ irq_cursor # Idle
             /\ Count(irq_called, h) > 0
             /\ h \in irq_owed )
           => <>(h \notin irq_owed \/ h \notin Range(m_irq_list)))
    /\ [][(~irq_enable /\ irq_enable') => irq_walked = m_irq_list]_vars
    /\ [](irq_enable => irq_cursor = Idle)

\* irq_poll has called back handler 1 and is at the end of the list, about to
\* return, and the peripheral of handler 1 has raised its status again.
C10_Witness ==
    /\ irq_cursor = AtEnd
    /\ irq_called = <<1>>
    /\ 1 \in irq_raised
    /\ irq_status[1]
    /\ ~irq_enable

\* A handler that irq_poll called back in this walk unregistered itself.
CancelledInWalk ==
    /\ irq_cursor # Idle
    /\ \E h \in Range(irq_called) : h \notin Range(m_irq_list)

-----------------------------------------------------------------------------
\* Properties of the SimulatedClock

\* C23: clock_adjust(amount) steps the clock: clock_now() after the call is
\* clock_now() before plus the amount, positive or negative; the call
\* returns Time(0), adds one to the count of coarse adjustments and leaves
\* the rate offset; clock_set(t) makes clock_now() equal to t and adds one
\* to the count of coarse adjustments as well.
C23_CoarseStep ==
    /\ sccall.op = "clock_adjust" =>
           /\ TotalSubns(clock_now(sc)) =
                  BAdd[TotalSubns(clock_now(sccall.old)), TotalSubns(sccall.amount)]
           /\ Canonical(clock_now(sc))
           /\ TotalSubns(sccall.ret) = BZero
           /\ sc.m_count_coarse = sccall.old.m_count_coarse + 1
           /\ sc.m_count_fine = sccall.old.m_count_fine
           /\ sc.m_offset = sccall.old.m_offset
    /\ sccall.op = "clock_set" =>
           /\ clock_now(sc) = sccall.amount
           /\ sc.m_count_coarse = sccall.old.m_count_coarse + 1
           /\ sc.m_offset = sccall.old.m_offset

\* clock_adjust by the subnanosecond before zero has returned on a clock
\* that clock_rate had given the offset 7 and that was at zero: the clock is
\* one subnanosecond before zero.
C23_Witness ==
    /\ sccall.op = "clock_adjust"
    /\ sccall.amount = Time_subns(BInt[-1])
    /\ sccall.old.m_offset = 7 /\ sccall.old.m_count_fine = 1
    /\ TotalSubns(clock_now(sccall.old)) = BZero
    /\ TotalSubns(clock_now(sc)) = BInt[-1]
    /\ sc.m_count_coarse = 1

\* The subnanoseconds that run() adds fit the s64 they are converted to.
RunFits(clk, num_clocks) == FitsS64(run_subns(clk, num_clocks))

\* The advance of clock_now() over the last call, in ticks, plus the
\* accumulator left.
TicksAccounted ==
    BAdd[BMul[BSub[TotalSubns(clock_now(sc)), TotalSubns(clock_now(sccall.old))],
              TICKS_PER_SUBNS],
         sc.m_nco_accum]

\* Cycle counts of two runs one after the other.
SplitClocks == {<<<<1>>, <<2>>>>, <<<<3>>, <<1>>>>, <<<<3>>, <<3>>>>}

\* One run of the cycles of a and b together leaves the clock and the
\* accumulator as a run of a and then a run of b do.
SplitsAlike(a, b) ==
    LET whole == run(sc, <<a[1] + b[1]>>)
        first == run(sc, a)
        parts == run(first, b)
    IN  /\ clock_now(whole) = clock_now(parts)
        /\ whole.m_nco_accum = parts.m_nco_accum

\* The accumulator is less than a subnanosecond.
AccumBelowSubns ==
    /\ ~BIsNeg(sc.m_nco_accum)
    /\ BLess(sc.m_nco_accum, BProd[TICKS_PER_SUBNS])

\* C34, as stated: after every run() m_nco_accum is less than
\* TICKS_PER_SUBNS, and the advance of clock_now() times TICKS_PER_SUBNS plus
\* the accumulator is the accumulator before plus num_clocks times
\* (m_nco_rate + rate delta).
C34_NoTimeLost ==
    /\ AccumBelowSubns
    /\ (sccall.op = "run" /\ RunFits(sccall.old, sccall.clocks)) =>
           TicksAccounted =
               BAdd[sccall.old.m_nco_accum,
                    BMul[nco_step_signed(sccall.old), sccall.clocks]]

\* C34, amended: after every run() m_nco_accum is less than TICKS_PER_SUBNS;
\* when the subnanoseconds of a run fit an s64, the advance of clock_now()
\* times TICKS_PER_SUBNS plus the accumulator is the accumulator before plus
\* num_clocks times u64(m_nco_rate + rate delta), which is 2^64 more than
\* the sum when the sum is negative; and a run of the cycles of two runs
\* together leaves the clock and the accumulator as the two runs do.
C34_TicksAccounted ==
    /\ AccumBelowSubns
    /\ (sccall.op = "run" /\ RunFits(sccall.old, sccall.clocks)) =>
           /\ TicksAccounted =
                  BAdd[sccall.old.m_nco_accum,
                       BMul[nco_step(sccall.old), sccall.clocks]]
           /\ BIsNeg(nco_step_signed(sccall.old)) =>
                  nco_step(sccall.old) =
                      BAdd[nco_step_signed(sccall.old), BPow2[64]]
           /\ ~BIsNeg(nco_step_signed(sccall.old)) =>
                  nco_step(sccall.old) = nco_step_signed(sccall.old)
    /\ sc.made => \A ab \in SplitClocks : SplitsAlike(ab[1], ab[2])

\* A second run of three cycles has returned on a 2^27 Hz clock whose offset
\* makes the sum of increment and delta negative, with ticks left over from
\* the first.
C34_Witness ==
    /\ sccall.op = "run" /\ sccall.clocks = <<3>>
    /\ sc.nrun = 2
    /\ sccall.old.m_nco_accum # BZero
    /\ BIsNeg(nco_step_signed(sccall.old))
    /\ RunFits(sccall.old, sccall.clocks)

\* C35, as stated: with no clock_adjust and no clock_set in between,
\* clock_now() does not decrease over any call of run(), for every rate
\* offset set through clock_rate.
C35_AnyRun ==
    sccall.op = "run" =>
        BLeq(TotalSubns(clock_now(sccall.old)), TotalSubns(clock_now(sc)))

\* C35, amended: with no clock_adjust and no clock_set in between,
\* clock_now() does not decrease over a call of run() whose subnanoseconds
\* fit an s64, for
\* every rate offset set through clock_rate, also a negative one whose
\* delta is more than the increment of a clock cycle.
C35_NeverDecreases ==
    (sccall.op = "run" /\ RunFits(sccall.old, sccall.clocks)) =>
        BLeq(TotalSubns(clock_now(sccall.old)), TotalSubns(clock_now(sc)))

\* run() of three cycles has returned after clock_rate(-5), with which the
\* sum of increment and delta is negative: the clock has advanced.
C35_Witness ==
    /\ sccall.op = "run" /\ sccall.clocks = <<3>>
    /\ sccall.old.m_count_fine = 1 /\ sccall.old.m_offset = -5
    /\ BIsNeg(nco_step_signed(sccall.old))
    /\ BLess(TotalSubns(clock_now(sccall.old)), TotalSubns(clock_now(sc)))

\* run() has returned with clock_now() less than before: the subnanoseconds
\* of the call did not fit an s64.
C35_Overflow ==
    /\ sccall.op = "run"
    /\ ~RunFits(sccall.old, sccall.clocks)
    /\ BLess(TotalSubns(clock_now(sc)), TotalSubns(clock_now(sccall.old)))

-----------------------------------------------------------------------------
\* Properties of the network

\* C11: a frame that a Dispatch received and that has the request Type of one
\* of its echo Protocols makes exactly one frame transmitted, whose receiver
\* is the sender of the frame received and whose sender is its receiver, at
\* each layer, whose Type is the reply Type of the Protocol, and whose
\* payload is the payload received; a frame of no Protocol's request Type
\* makes no frame transmitted.
C11_EchoReply ==
    netlog.node # 0 =>
        IF \E i \in DOMAIN netlog.list : netlog.list[i].req = netlog.frame.type
        THEN /\ Len(netlog.called) = 1
             /\ netlog.called[1].req = netlog.frame.type
             /\ Len(netlog.tx) = 1
             /\ netlog.tx[1].dst = netlog.frame.src
             /\ netlog.tx[1].src = netlog.frame.dst
             /\ netlog.tx[1].type = netlog.called[1].ack
             /\ netlog.tx[1].payload = netlog.frame.payload
        ELSE netlog.tx = <<>>

\* The echo on port 1 of node 1, with reply Type 2, has received the two bytes
\* that the outside host sent to port 1, and one frame to that host is
\* transmitted.
C11_Witness ==
    /\ netlog.node = 1
    /\ netlog.frame = MkFrame(Outside, UdpAddr(1, 1), 1, <<7, 8>>)
    /\ netlog.called = <<MkEcho(1, 1, 2)>>
    /\ netlog.tx = <<MkFrame(UdpAddr(1, 1), Outside, 2, <<7, 8>>)>>

\* No frame is on its way to a node.
Quiet == \A n \in Nodes : chan[n] = <<>>

\* Each echo has a reply Type other than its request Type.
DistinctTypes ==
    \A n \in Nodes : \A i \in DOMAIN protos[n] : protos[n][i].ack # protos[n][i].req

\* No echo has the reply Type that is the request Type of an echo of the
\* other node.
NoCross ==
    \A n \in Nodes : \A i \in DOMAIN protos[n] : \A j \in DOMAIN protos[Peer(n)] :
        protos[n][i].ack # protos[Peer(n)][j].req

\* C12, as stated: with two echo endpoints that face each other, each with a
\* reply Type other than its own request Type, a request makes finitely many
\* frames: whenever frames are on their way, later none is.
C12_DistinctTypesSuffice == ([]DistinctTypes) => (~Quiet ~> Quiet)

\* C12, amended: a request makes finitely many frames when the reply Type of
\* each endpoint is not the request Type of the endpoint that faces it, as
\* when both have the same request Type and a reply Type other than it.
C12_ReplyNotEchoed == ([]NoCross) => (~Quiet ~> Quiet)

\* Both nodes have the echo of request Type 1 and reply Type 2; node 1 echoed
\* a request of node 2, and node 2 received the reply, called no Protocol for
\* it, and no frame is left.
C12_Witness ==
    /\ protos[1] = <<MkEcho(1, 1, 2)>> \/ protos[1] = <<MkEcho(2, 1, 2)>>
    /\ Len(protos[2]) = 1 /\ protos[2][1].req = 1 /\ protos[2][1].ack = 2
    /\ netlog.node = 2
    /\ netlog.frame = MkFrame(<<1>>, <<2>>, 2, <<7>>)
    /\ netlog.called = <<>>
    /\ Quiet

\* C13: a Dispatch calls at most one Protocol for a frame it received: the
\* first in its list that has the Type of the frame, which of the Protocols
\* of that Type is the one registered last; with no Protocol of that Type it
\* calls none.
C13_FirstMatch ==
    netlog.node # 0 =>
        LET list == netlog.list
            match == {i \in DOMAIN list : list[i].req = netlog.frame.type}
        IN  IF match = {} THEN netlog.called = <<>>
            ELSE /\ Len(netlog.called) = 1
                 /\ \E i \in match :
                        /\ netlog.called[1] = list[i]
                        /\ \A j \in match : i <= j /\ list[i].id >= list[j].id

\* Two echoes of request Type 1 are registered, and the frame of Type 1 went
\* to the echo registered second, which sent the one reply.
C13_Witness ==
    /\ netlog.list = <<MkEcho(2, 1, 1), MkEcho(1, 1, 2)>>
    /\ netlog.frame.type = 1
    /\ netlog.called = <<MkEcho(2, 1, 1)>>
    /\ netlog.tx = <<MkFrame(netlog.frame.dst, netlog.frame.src, 1, netlog.frame.payload)>>

-----------------------------------------------------------------------------
\* Properties of the capture files

\* The packets of the calls of write_finalize that returned true, in order.
RECURSIVE Accepted(_)
Accepted(log) ==
    IF log = <<>> THEN <<>>
    ELSE (IF Head(log).ok THEN <<Head(log).pkt>> ELSE <<>>) \o Accepted(Tail(log))

\* C14: the packets read from a file are the packets that were written and
\* finalized, as many, in that order, with those bytes, in both formats: a
\* reader at the end of the file has read them all, and before the end it
\* has read and holds the first of them.
C14_RoundTrip ==
    pc_rd.open =>
        LET seen == pc_rd.got \o (IF pc_rd.has THEN <<pc_rd.pkt>> ELSE <<>>)
            sent == Accepted(pc_log)
        IN  /\ Len(seen) <= Len(sent)
            /\ seen = SubSeq(sent, 1, Len(seen))
            /\ ~pc_rd.has => pc_rd.got = sent /\ pc_rd.pos = Len(pc_file)

\* Two packets of one and four bytes were written, in either format, and
\* read to the end of the file.
C14_Witness ==
    /\ pc_rd.open /\ ~pc_rd.has
    /\ pc_rd.got = <<<<1>>, <<2, 3, 4, 5>>>>
    /\ Accepted(pc_log) = pc_rd.got

\* The packets passed on: those of the calls of write_finalize that
\* returned true while a passthrough was set.
RECURSIVE PassedOn(_)
PassedOn(log) ==
    IF log = <<>> THEN <<>>
    ELSE (IF Head(log).ok /\ Head(log).pass THEN <<Head(log).pkt>> ELSE <<>>)
         \o PassedOn(Tail(log))

\* C15: the packets finalized on the passthrough Writeable are the packets
\* that the WritePcap finalized with success while the passthrough was set,
\* each once, with the same bytes, in the same order; a packet that was
\* aborted or that failed is not among them.
C15_Passthrough == pc_sink = PassedOn(pc_log)

\* With the passthrough set, a packet of five bytes failed and a packet of
\* four bytes was finalized: the passthrough has the second only.
C15_Witness ==
    /\ Len(pc_log) = 2
    /\ ~pc_log[1].ok /\ pc_log[1].pass
    /\ Len(pc_log[1].pkt) = SATCAT5_PCAP_BUFFSIZE + 1
    /\ pc_log[2] = [ok |-> TRUE, pkt |-> <<2, 3, 4, 5>>, pass |-> TRUE]
    /\ pc_sink = <<<<2, 3, 4, 5>>>>

\* All packets of a file, as a reader from its start to its end has them,
\* and the position where the reader stops.
RECURSIVE ReadFrom_(_, _, _, _)
ReadFrom_(file, ng, be, pos) ==
    LET nx == next_packet(file, ng, be, pos)
    IN  IF ~nx.has THEN [pkts |-> <<>>, pos |-> nx.pos]
        ELSE LET rest == ReadFrom_(file, ng, be, nx.pos)
             IN  [pkts |-> <<nx.pkt>> \o rest.pkts, pos |-> rest.pos]
ReadAll(file) ==
    LET hdr == read_header(file) IN ReadFrom_(file, hdr.ng, hdr.be, hdr.pos)

\* The bytes of the file taken by the header and the records of the packets.
RECURSIVE FileSize(_, _)
FileSize(ng, pkts) ==
    IF pkts = <<>> THEN (IF ng THEN 48 ELSE 24)
    ELSE (IF ng THEN 32 + Len(Head(pkts)) + Pad4(Len(Head(pkts)))
          ELSE 16 + Len(Head(pkts)))
         + FileSize(ng, Tail(pkts))

\* C16: a packet of more bytes than SATCAT5_PCAP_BUFFSIZE is rejected whole:
\* write_finalize returns false for it and true for a packet that fits, also
\* for the next after one rejected, and the file holds the records of the
\* packets that fit, whole, and no byte of another.
C16_OversizeRejected ==
    pc_wr.state # "new" =>
        /\ \A i \in DOMAIN pc_log :
               pc_log[i].ok = (Len(pc_log[i].pkt) <= SATCAT5_PCAP_BUFFSIZE)
        /\ ReadAll(pc_file).pkts = Accepted(pc_log)
        /\ Len(pc_file) = FileSize(pc_wr.ng, Accepted(pc_log))

\* A packet of five bytes was rejected and the next, of four bytes, is the
\* one record of the file.
C16_Witness ==
    /\ Len(pc_log) = 2
    /\ ~pc_log[1].ok /\ Len(pc_log[1].pkt) = SATCAT5_PCAP_BUFFSIZE + 1
    /\ pc_log[2].ok /\ pc_log[2].pkt = <<2, 3, 4, 5>>
    /\ ReadAll(pc_file).pkts = <<<<2, 3, 4, 5>>>>

-----------------------------------------------------------------------------
Init ==
    /\ ListInit
    /\ TimeInit
    /\ RegaddrInit
    /\ CfgInit
    /\ IrqInit
    /\ NetInit
    /\ PcapInit
    /\ ClockInit
Next ==
    \/ ListNext({"A"})
    \/ TimeNext
    \/ RegaddrNext
    \/ CfgNext
    \/ IrqNext
    \/ NetNext
    \/ PcapNext
    \/ ClockNext
Spec == Init /\ [][Next]_vars

\* The list functions called on one list, in any order and with any item.
SpecList == Init /\ [][ListNext({"A"})]_vars

\* A Time object constructed and changed by the arithmetic operators.
SpecTime == Init /\ [][TimeArithNext]_vars

\* A Time object constructed, negated, converted and sent in a PTP message.
SpecPtp == Init /\ [][TimePtpNext]_vars

\* Calls of get_regaddr.
SpecRegaddr == Init /\ [][RegaddrNext]_vars

\* Bulk operations on a memory-mapped ConfigBus.
SpecCfg == Init /\ [][CfgNext]_vars

\* Interrupt handlers registered and unregistered, peripherals raising their
\* interrupts, and the shared interrupt polled.
SpecIrq == Init /\ [][IrqNext]_vars

\* The same, with handlers that unregister themselves in their callback.
SpecIrqCancel == Init /\ [][IrqNext \/ PollCancel]_vars

\* The same, where an armed and asserted interrupt is taken and irq_poll runs
\* to its end.
SpecIrqFair ==
    /\ SpecIrq
    /\ WF_vars(IrqEvent)
    /\ WF_vars(PollStep)
    /\ WF_vars(PollReturn)

\* One list, with any calls and the calls that look at it.
SpecListAny == Init /\ [][ListNext({"A"}) \/ QueryNext({"A"})]_vars

\* One list that started empty, with add_safe as the only call that adds.
SpecListSafe == Init /\ [][SafeNext]_vars

\* Two lists that share no item.
SpecTwoLists == Init /\ [][TwoListsNext]_vars

\* Two nodes with one echo Protocol each at most.
SpecEcho == Init /\ [][EchoNext]_vars

\* One Dispatch with several Protocols.
SpecDispatch == Init /\ [][DispatchNext]_vars

\* A frame on its way to a node is received by it.
SpecEchoFair == SpecEcho /\ \A n \in Nodes : WF_vars(Deliver(n))

\* A capture file written, closed and read.
SpecPcap == Init /\ [][PcapNext]_vars

\* One list, used as the header of list.h demands.
SpecListWF == Init /\ [][WellFormedNext]_vars

\* Two lists, every call with an item that is on the list or on none.
SpecFrame == Init /\ [][FrameNext]_vars

\* Two lists, items added as the header demands and removed from any list.
SpecRemoveAny == Init /\ [][RemoveAnyNext]_vars

\* A SimulatedClock constructed, stepped, set and trimmed.
SpecClock == Init /\ [][ClockNext]_vars

====
